---- MODULE Spec2Model ----
(***************************************************************************)
(* Verification model of BuscaBoleto: the SFTP session manager and remote  *)
(* walker (src/ftp_client.py), the NFSe lookup client (src/nfse_client.py) *)
(* and the worker/event-loop structure of the application                  *)
(* (src/interface.py).                                                     *)
(*                                                                         *)
(* Three specifications share the module:                                  *)
(*   Spec      SFTPClient: session handles and the public operations       *)
(*   SpecNfse  NFSeClient: the ID DPS -> access key -> XML workflow        *)
(*   SpecApp   BuscaBoletoApp: Tk event loop, worker threads, extraction   *)
(***************************************************************************)
EXTENDS Integers, Sequences, FiniteSets, TLC

VARIABLES
    ssh,        \* SFTPClient.ssh : "None" | "unconnected" | "connected"
    sftp,       \* SFTPClient.sftp: "None" | "open"
    stack,      \* call stack of the SFTPClient operation in progress
    ret,        \* value returned by the call that returned last
    opRec,      \* record of the public operation in progress / finished last
    lastG,      \* record of the last garantir_conexao call
    lastC,      \* outcome of the last conectar call: "none" | "ok" | "fail"
    localFiles  \* pasta_download: the files [nome, origem (remote file stored)]

sftpVars == <<ssh, sftp, stack, ret, opRec, lastG, lastC, localFiles>>

-----------------------------------------------------------------------------
(* Bounds *)

\* Saturation value of the per-operation counters of garantir_conexao and
\* reconectar calls.
CountCap == 2
\* Saturation value of the per-operation counters of listdir_attr and get calls.
IoCap == 1

Min(a, b) == IF a < b THEN a ELSE b

-----------------------------------------------------------------------------
(* Character sequences.  A Python str is a tuple of one-character strings. *)

Digit == {"0", "1", "2", "3", "4", "5", "6", "7", "8", "9"}

\* re.sub(r'[^\d]', '', s)
RECURSIVE DigitsOf(_)
DigitsOf(s) ==
    IF s = <<>> THEN <<>>
    ELSE IF Head(s) \in Digit THEN <<Head(s)>> \o DigitsOf(Tail(s))
         ELSE DigitsOf(Tail(s))

\* a in b   (Python substring test)
IsSubstring(a, b) ==
    \E k \in 0..(Len(b) - Len(a)) : SubSeq(b, k + 1, k + Len(a)) = a

\* s.endswith(ext)
EndsWith(s, ext) ==
    /\ Len(s) >= Len(ext)
    /\ SubSeq(s, Len(s) - Len(ext) + 1, Len(s)) = ext

-----------------------------------------------------------------------------
(* SFTPClient: session handles *)

Session(h, f) == [ssh |-> h, sftp |-> f]

\* Outcome of the remote steps of one conectar call: the step that raised.
ConOutcome == {"ok", "auth", "ssh", "open_sftp", "chdir"}

\* conectar(): self.ssh is assigned before connect, self.sftp before chdir;
\* the except clauses only build the message.
conectar(s, out) ==
    CASE out = "ok"        -> [ssh |-> "connected", sftp |-> "open", ok |-> TRUE, msg |-> "Conectado"]
      [] out = "auth"      -> [ssh |-> "unconnected", sftp |-> s.sftp, ok |-> FALSE, msg |-> "Erro de autenticacao"]
      [] out = "ssh"       -> [ssh |-> "unconnected", sftp |-> s.sftp, ok |-> FALSE, msg |-> "Erro SSH"]
      [] out = "open_sftp" -> [ssh |-> "connected", sftp |-> s.sftp, ok |-> FALSE, msg |-> "Erro SSH"]
      [] out = "chdir"     -> [ssh |-> "connected", sftp |-> "open", ok |-> FALSE, msg |-> "Erro ao conectar"]

desconectar_mut_only_sftp(s) == [ssh |-> s.ssh, sftp |-> "None"]

\* desconectar(): errors of close() are swallowed, both handles end None.
desconectar(s) == [ssh |-> "None", sftp |-> "None"]

\* verificar_conexao(): False without handles, else False iff getcwd raises.
verificar_conexao(s, getcwdOk) ==
    IF s.sftp = "None" \/ s.ssh = "None" THEN FALSE ELSE getcwdOk

\* reconectar(): desconectar, then conectar; the log lists the calls made.
reconectar(s, out) ==
    LET d == desconectar(s)
        c == conectar(d, out)
    IN  [ssh |-> c.ssh, sftp |-> c.sftp, ok |-> c.ok, msg |-> c.msg,
         log |-> <<"desconectar", "conectar">>]

garantir_conexao_mut_retry(s, getcwdOk, out) ==
    IF verificar_conexao(s, getcwdOk)
    THEN [ssh |-> s.ssh, sftp |-> s.sftp, ret |-> TRUE, healthy |-> TRUE,
          conOk |-> FALSE, log |-> <<>>]
    ELSE LET r == reconectar(s, out)
             r2 == reconectar(r, out)
         IN  IF r.ok
             THEN [ssh |-> r.ssh, sftp |-> r.sftp, ret |-> r.ok, healthy |-> FALSE,
                   conOk |-> r.ok, log |-> r.log]
             ELSE [ssh |-> r2.ssh, sftp |-> r2.sftp, ret |-> r2.ok, healthy |-> FALSE,
                   conOk |-> r2.ok, log |-> r.log \o r2.log]

garantir_conexao_mut_always(s, getcwdOk, out) ==
    LET r == reconectar(s, out)
    IN  [ssh |-> r.ssh, sftp |-> r.sftp,
         ret |-> verificar_conexao(s, getcwdOk) \/ r.ok,
         healthy |-> verificar_conexao(s, getcwdOk),
         conOk |-> r.ok, log |-> r.log]

\* garantir_conexao(): True when healthy, else the result of one reconectar.
garantir_conexao(s, getcwdOk, out) ==
    IF verificar_conexao(s, getcwdOk)
    THEN [ssh |-> s.ssh, sftp |-> s.sftp, ret |-> TRUE, healthy |-> TRUE,
          conOk |-> FALSE, log |-> <<>>]
    ELSE LET r == reconectar(s, out)
         IN  [ssh |-> r.ssh, sftp |-> r.sftp, ret |-> r.ok, healthy |-> FALSE,
              conOk |-> r.ok, log |-> r.log]

-----------------------------------------------------------------------------
(* The remote server: a fixed tree under the two configured directories.   *)
(* A path is the sequence of its components, a name a character sequence.  *)

Filial == <<"0", "1", "0", "0", "0", "1">>
Pdf == <<".", "p", "d", "f">>
PDF == <<".", "P", "D", "F">>
Txt == <<".", "t", "x", "t">>
Num5909 == <<"0", "0", "0", "0", "0", "5", "9", "0", "9">>
Num5910 == <<"0", "0", "0", "0", "0", "5", "9", "1", "0">>

Nome5909 == Filial \o Num5909 \o Pdf       \* 010001000005909.pdf
Nome5910 == Filial \o Num5910 \o PDF       \* 010001000005910.PDF
NomeCurto == <<"5", "9", "0", "9">> \o Pdf \* 5909.pdf
NomeTxt == Filial \o Num5909 \o Txt        \* 010001000005909.txt

diretorio_remoto == << <<"B">> >>
diretorio_remoto_nfs == << <<"N">> >>
extensoes_permitidas == {Pdf, PDF}

Arq(n, t) == [filename |-> n, isDir |-> FALSE, st_mtime |-> t]
Dir(n) == [filename |-> n, isDir |-> TRUE, st_mtime |-> 0]

\* sftp.listdir_attr(d) when it succeeds
Listing(d) ==
    CASE d = diretorio_remoto ->
            <<Arq(Nome5909, 2), Dir(<<"s", "1">>), Dir(<<"s", "2">>), Arq(NomeTxt, 2)>>
      [] d = Append(diretorio_remoto, <<"s", "1">>) -> <<Arq(Nome5910, 1)>>
      [] d = Append(diretorio_remoto, <<"s", "2">>) -> <<Arq(NomeCurto, 2)>>
      [] d = diretorio_remoto_nfs -> <<Arq(Nome5909, 1)>>
      [] OTHER -> <<>>

\* Outcome of one listdir_attr call: the list, or the exception raised.
LsOutcome == {"ok", "perm", "sock"}
\* "Garbage" in str(e) or "Socket" in str(e) or "EOF" in str(e)
IsTransportError(o) == o = "sock"

\* Outcome of one sftp.get call.
GetOutcome == {"ok", "perm", "notfound", "erro"}

\* Inputs of the public operations.
Numeros == {<<"n", "f">>, <<"5", "9", "0", "9">>, Num5909}
Datas == 1..2

-----------------------------------------------------------------------------
(* Matching and date filter of the search operations *)

Matches_mut_substring(nome, numero_limpo, busca_literal) ==
    IsSubstring(numero_limpo, DigitsOf(nome))

Matches_mut_literal_any(nome, numero_limpo, busca_literal) ==
    IF busca_literal /\ Len(DigitsOf(nome)) >= 15 THEN TRUE
    ELSE IsSubstring(numero_limpo, DigitsOf(nome))

\* _buscar_em_diretorio, the test applied to one file name
Matches(nome, numero_limpo, busca_literal) ==
    LET nome_limpo == DigitsOf(nome)
    IN  IF busca_literal
        THEN IF Len(nome_limpo) >= 15
             THEN SubSeq(nome_limpo, 7, 15) = numero_limpo
             ELSE IsSubstring(numero_limpo, nome_limpo)
        ELSE IsSubstring(numero_limpo, nome_limpo)

RECURSIVE SelectHits(_, _, _, _)
\* the filter loop of _buscar_em_diretorio: matching files, tagged with tipo
SelectHits(arquivos, numero_limpo, busca_literal, tipo) ==
    IF arquivos = <<>> THEN <<>>
    ELSE LET a == Head(arquivos)
             rest == SelectHits(Tail(arquivos), numero_limpo, busca_literal, tipo)
         IN  IF Matches(a.nome, numero_limpo, busca_literal)
             THEN <<[caminho |-> a.caminho, nome |-> a.nome, data |-> a.data,
                     tipo |-> tipo]>> \o rest
             ELSE rest

RECURSIVE SelectPeriodo(_, _, _, _)
\* the filter loops of buscar_por_data
SelectPeriodo(arquivos, di, df, tipo) ==
    IF arquivos = <<>> THEN <<>>
    ELSE LET a == Head(arquivos)
             rest == SelectPeriodo(Tail(arquivos), di, df, tipo)
         IN  IF di <= a.data /\ a.data <= df
             THEN <<[caminho |-> a.caminho, nome |-> a.nome, data |-> a.data,
                     tipo |-> tipo]>> \o rest
             ELSE rest

RECURSIVE InsertDesc(_, _)
InsertDesc(sorted, x) ==
    IF sorted = <<>> THEN <<x>>
    ELSE IF Head(sorted).data >= x.data
         THEN <<Head(sorted)>> \o InsertDesc(Tail(sorted), x)
         ELSE <<x>> \o sorted

RECURSIVE SortDataDesc(_)
\* resultados.sort(key=lambda x: x[2], reverse=True): stable, newest first
SortDataDesc(s) ==
    IF s = <<>> THEN <<>>
    ELSE InsertDesc(SortDataDesc(SubSeq(s, 1, Len(s) - 1)), s[Len(s)])

-----------------------------------------------------------------------------
(* SFTPClient operations as a call stack.  Each step runs the code of the  *)
(* top frame up to and including its next remote interaction; the outcome  *)
(* of that interaction is chosen by the environment.                       *)

NoArg == [numero |-> <<>>, literal |-> FALSE, di |-> 0, df |-> 0, nome |-> <<>>]

Frame(fn, pc, dir, tipo, arg) ==
    [fn |-> fn, pc |-> pc, dir |-> dir, tipo |-> tipo, i |-> 1, ents |-> <<>>,
     acc |-> <<>>, arg |-> arg]

Top == stack[Len(stack)]
Pop == SubSeq(stack, 1, Len(stack) - 1)
ReplaceTop(f) == Append(Pop, f)

NewOp(name) ==
    [op |-> name, done |-> FALSE, garantirs |-> 0, reconnects |-> 0,
     listdirs |-> 0, gets |-> 0, result |-> <<>>, raised |-> FALSE,
     dir |-> <<>>, falhas |-> {}]

NoG == [called |-> FALSE, healthy |-> FALSE, ret |-> FALSE, conOk |-> FALSE, log |-> <<>>]

\* Number of occurrences of x in the call log.
RECURSIVE Count(_, _)
Count(log, x) ==
    IF log = <<>> THEN 0
    ELSE (IF Head(log) = x THEN 1 ELSE 0) + Count(Tail(log), x)

\* Counters of the operation after one garantir_conexao call g.
CountG(rec, g) ==
    [rec EXCEPT !.garantirs = Min(@ + 1, CountCap),
                !.reconnects = Min(@ + Count(g.log, "conectar"), CountCap)]

\* The session and the call records after one garantir_conexao call g.
SessG(g) ==
    /\ ssh' = g.ssh
    /\ sftp' = g.sftp
    /\ lastG' = [called |-> TRUE, healthy |-> g.healthy, ret |-> g.ret,
                 conOk |-> g.conOk, log |-> g.log]
    /\ lastC' = IF Count(g.log, "conectar") = 0 THEN lastC
                ELSE IF g.conOk THEN "ok" ELSE "fail"

\* The stack, the returned value and the operation record after a step.
Do(stk, rv, rec) ==
    /\ stack' = stk
    /\ ret' = IF stk = <<>> THEN <<>> ELSE rv
    /\ opRec' = IF stk = <<>> THEN [rec EXCEPT !.done = TRUE, !.result = rv] ELSE rec

Idle == stack = <<>>
At(fn, pc) == stack # <<>> /\ Top.fn = fn /\ Top.pc = pc

(* ---- direct calls of the session methods ---- *)

CallConectar ==
    /\ Idle
    /\ \E out \in ConOutcome :
         LET c == conectar(Session(ssh, sftp), out)
         IN  /\ ssh' = c.ssh
             /\ sftp' = c.sftp
             /\ lastC' = IF c.ok THEN "ok" ELSE "fail"
             /\ opRec' = [NewOp("conectar") EXCEPT !.done = TRUE, !.result = <<c.ok>>]
    /\ UNCHANGED <<stack, ret, lastG, localFiles>>

CallDesconectar ==
    /\ Idle
    /\ LET d == desconectar(Session(ssh, sftp))
       IN  /\ ssh' = d.ssh
           /\ sftp' = d.sftp
    /\ opRec' = [NewOp("desconectar") EXCEPT !.done = TRUE]
    /\ UNCHANGED <<stack, ret, lastG, lastC, localFiles>>

CallReconectar ==
    /\ Idle
    /\ \E out \in ConOutcome :
         LET r == reconectar(Session(ssh, sftp), out)
         IN  /\ ssh' = r.ssh
             /\ sftp' = r.sftp
             /\ lastC' = IF r.ok THEN "ok" ELSE "fail"
             /\ opRec' = [NewOp("reconectar") EXCEPT !.done = TRUE, !.reconnects = 1,
                                                      !.result = <<r.ok>>]
    /\ UNCHANGED <<stack, ret, lastG, localFiles>>

CallGarantirConexao ==
    /\ Idle
    /\ \E getcwdOk \in BOOLEAN, out \in ConOutcome :
         LET g == garantir_conexao(Session(ssh, sftp), getcwdOk, out)
         IN  /\ SessG(g)
             /\ opRec' = [CountG(NewOp("garantir_conexao"), g) EXCEPT
                             !.done = TRUE, !.result = <<g.ret>>]
    /\ UNCHANGED <<stack, ret, localFiles>>

(* ---- listar_arquivos_com_data ---- *)

StartListar ==
    /\ Idle
    /\ \E d \in {diretorio_remoto, diretorio_remoto_nfs} :
         /\ stack' = <<Frame("listar_arquivos_com_data", "garantir", d, "", NoArg)>>
         /\ opRec' = [NewOp("listar_arquivos_com_data") EXCEPT !.dir = d]
    /\ UNCHANGED <<ssh, sftp, ret, lastG, lastC, localFiles>>

ListarGarantir_mut_list_anyway ==
    /\ At("listar_arquivos_com_data", "garantir")
    /\ \E getcwdOk \in BOOLEAN, out \in ConOutcome :
         LET g == garantir_conexao(Session(ssh, sftp), getcwdOk, out)
         IN  /\ SessG(g)
             /\ Do(ReplaceTop([Top EXCEPT !.pc = "listdir"]), ret, CountG(opRec, g))
    /\ UNCHANGED localFiles

\* The record of a public walk after the listing of directory d failed with o.
Falha(rec, d, o) ==
    IF rec.op = "listar_arquivos_com_data"
    THEN [rec EXCEPT !.falhas = @ \cup {[dir |-> d, o |-> o]}]
    ELSE rec

\* if not self.garantir_conexao(): return []
ListarGarantir ==
    /\ At("listar_arquivos_com_data", "garantir")
    /\ \E getcwdOk \in BOOLEAN, out \in ConOutcome :
         LET g == garantir_conexao(Session(ssh, sftp), getcwdOk, out)
         IN  /\ SessG(g)
             /\ IF g.ret
                THEN Do(ReplaceTop([Top EXCEPT !.pc = "listdir"]), ret, CountG(opRec, g))
                ELSE Do(Pop, <<>>, Falha(CountG(opRec, g), Top.dir, "garantir"))
    /\ UNCHANGED localFiles

ListarListdir_mut_abort_walk ==
    /\ At("listar_arquivos_com_data", "listdir")
    /\ \E o \in LsOutcome :
         LET rec == [opRec EXCEPT !.listdirs = Min(@ + 1, IoCap)]
         IN  CASE o = "ok" ->
                    Do(ReplaceTop([Top EXCEPT !.pc = "loop", !.ents = Listing(Top.dir)]),
                       ret, rec)
               [] IsTransportError(o) ->
                    Do(ReplaceTop([Top EXCEPT !.pc = "except"]), ret, Falha(rec, Top.dir, o))
               [] OTHER -> Do(<<>>, <<>>, Falha(rec, Top.dir, o))
    /\ UNCHANGED <<ssh, sftp, lastG, lastC, localFiles>>

\* for item in self.sftp.listdir_attr(diretorio_atual): the call itself
ListarListdir ==
    /\ At("listar_arquivos_com_data", "listdir")
    /\ \E o \in LsOutcome :
         LET rec == [opRec EXCEPT !.listdirs = Min(@ + 1, IoCap)]
         IN  CASE o = "ok" ->
                    Do(ReplaceTop([Top EXCEPT !.pc = "loop", !.ents = Listing(Top.dir)]),
                       ret, rec)
               [] IsTransportError(o) ->
                    Do(ReplaceTop([Top EXCEPT !.pc = "except"]), ret, Falha(rec, Top.dir, o))
               [] OTHER -> Do(Pop, Top.acc, Falha(rec, Top.dir, o))
    /\ UNCHANGED <<ssh, sftp, lastG, lastC, localFiles>>

ListarExcept_mut_no_garantir ==
    /\ At("listar_arquivos_com_data", "except")
    /\ Do(Pop, Top.acc, opRec)
    /\ UNCHANGED <<ssh, sftp, lastG, lastC, localFiles>>

\* except Exception as e: if "Garbage" in str(e) ...: self.garantir_conexao()
ListarExcept ==
    /\ At("listar_arquivos_com_data", "except")
    /\ \E getcwdOk \in BOOLEAN, out \in ConOutcome :
         LET g == garantir_conexao(Session(ssh, sftp), getcwdOk, out)
         IN  /\ SessG(g)
             /\ Do(Pop, Top.acc, CountG(opRec, g))
    /\ UNCHANGED localFiles

\* one iteration of the loop over the listed entries
ListarLoop ==
    /\ At("listar_arquivos_com_data", "loop")
    /\ IF Top.i > Len(Top.ents)
       THEN Do(Pop, Top.acc, opRec)
       ELSE LET item == Top.ents[Top.i]
                caminho_completo == Append(Top.dir, item.filename)
            IN  IF item.isDir
                THEN Do(Append(ReplaceTop([Top EXCEPT !.pc = "extend"]),
                               Frame("listar_arquivos_com_data", "garantir",
                                     caminho_completo, "", NoArg)),
                        ret, opRec)
                ELSE IF \E ext \in extensoes_permitidas : EndsWith(item.filename, ext)
                     THEN Do(ReplaceTop([Top EXCEPT
                                 !.i = @ + 1,
                                 !.acc = Append(@, [caminho |-> caminho_completo,
                                                    nome |-> item.filename,
                                                    data |-> item.st_mtime])]),
                             ret, opRec)
                     ELSE Do(ReplaceTop([Top EXCEPT !.i = @ + 1]), ret, opRec)
    /\ UNCHANGED <<ssh, sftp, lastG, lastC, localFiles>>

\* arquivos_encontrados.extend(self.listar_arquivos_com_data(caminho_completo))
ListarExtend ==
    /\ At("listar_arquivos_com_data", "extend")
    /\ Do(ReplaceTop([Top EXCEPT !.pc = "loop", !.i = @ + 1, !.acc = @ \o ret]),
          ret, opRec)
    /\ UNCHANGED <<ssh, sftp, lastG, lastC, localFiles>>

(* ---- _buscar_em_diretorio (busca_recursiva=True) ---- *)

\* if not self.garantir_conexao(): return []; then the recursive listing
BuscarEmDiretorioGarantir ==
    /\ At("_buscar_em_diretorio", "garantir")
    /\ \E getcwdOk \in BOOLEAN, out \in ConOutcome :
         LET g == garantir_conexao(Session(ssh, sftp), getcwdOk, out)
         IN  /\ SessG(g)
             /\ IF g.ret
                THEN Do(Append(ReplaceTop([Top EXCEPT !.pc = "filter"]),
                               Frame("listar_arquivos_com_data", "garantir",
                                     Top.dir, "", NoArg)),
                        ret, CountG(opRec, g))
                ELSE Do(Pop, <<>>, CountG(opRec, g))
    /\ UNCHANGED localFiles

\* the filter over the listed files
BuscarEmDiretorioFilter ==
    /\ At("_buscar_em_diretorio", "filter")
    /\ Do(Pop, SelectHits(ret, Top.arg.numero, Top.arg.literal, Top.tipo), opRec)
    /\ UNCHANGED <<ssh, sftp, lastG, lastC, localFiles>>

(* ---- buscar_boleto_e_nf ---- *)

StartBuscarBoletoENf ==
    /\ Idle
    /\ \E n \in Numeros, lit \in BOOLEAN :
         stack' = <<Frame("buscar_boleto_e_nf", "garantir", <<>>, "",
                          [NoArg EXCEPT !.numero = n, !.literal = lit])>>
    /\ opRec' = NewOp("buscar_boleto_e_nf")
    /\ UNCHANGED <<ssh, sftp, ret, lastG, lastC, localFiles>>

BuscarBoletoENfGarantir_mut_no_digit_check ==
    /\ At("buscar_boleto_e_nf", "garantir")
    /\ \E getcwdOk \in BOOLEAN, out \in ConOutcome :
         LET g == garantir_conexao(Session(ssh, sftp), getcwdOk, out)
         IN  /\ SessG(g)
             /\ IF ~g.ret
                THEN Do(Pop, <<>>, CountG(opRec, g))
                ELSE Do(Append(ReplaceTop([Top EXCEPT !.pc = "boletos"]),
                               Frame("_buscar_em_diretorio", "garantir", diretorio_remoto,
                                     "BOLETO",
                                     [Top.arg EXCEPT !.numero = DigitsOf(Top.arg.numero)])),
                        ret, CountG(opRec, g))
    /\ UNCHANGED localFiles

\* garantir_conexao, the digits-only projection, then the search for boletos
BuscarBoletoENfGarantir ==
    /\ At("buscar_boleto_e_nf", "garantir")
    /\ \E getcwdOk \in BOOLEAN, out \in ConOutcome :
         LET g == garantir_conexao(Session(ssh, sftp), getcwdOk, out)
             numero_limpo == DigitsOf(Top.arg.numero)
         IN  /\ SessG(g)
             /\ IF ~g.ret \/ numero_limpo = <<>>
                THEN Do(Pop, <<>>, CountG(opRec, g))
                ELSE Do(Append(ReplaceTop([Top EXCEPT !.pc = "boletos"]),
                               Frame("_buscar_em_diretorio", "garantir", diretorio_remoto,
                                     "BOLETO", [Top.arg EXCEPT !.numero = numero_limpo])),
                        ret, CountG(opRec, g))
    /\ UNCHANGED localFiles

\* resultados.extend(boletos); the search for NFs when the directory is set
BuscarBoletoENfBoletos ==
    /\ At("buscar_boleto_e_nf", "boletos")
    /\ IF diretorio_remoto_nfs # <<>>
       THEN Do(Append(ReplaceTop([Top EXCEPT !.pc = "nfs", !.acc = @ \o ret]),
                      Frame("_buscar_em_diretorio", "garantir", diretorio_remoto_nfs, "NF",
                            [Top.arg EXCEPT !.numero = DigitsOf(Top.arg.numero)])),
               ret, opRec)
       ELSE Do(Pop, Top.acc \o ret, opRec)
    /\ UNCHANGED <<ssh, sftp, lastG, lastC, localFiles>>

\* resultados.extend(nfs); return resultados
BuscarBoletoENfNfs ==
    /\ At("buscar_boleto_e_nf", "nfs")
    /\ Do(Pop, Top.acc \o ret, opRec)
    /\ UNCHANGED <<ssh, sftp, lastG, lastC, localFiles>>

(* ---- buscar_boleto ---- *)

RECURSIVE ArquivosDe(_, _)
\* the loop of the non-recursive branch of buscar_boleto: the files of the
\* listing that carry an allowed extension, as (caminho, nome, data_mod)
ArquivosDe(dir, ents) ==
    IF ents = <<>> THEN <<>>
    ELSE LET item == Head(ents)
             rest == ArquivosDe(dir, Tail(ents))
         IN  IF ~item.isDir /\ \E ext \in extensoes_permitidas : EndsWith(item.filename, ext)
             THEN <<[caminho |-> Append(dir, item.filename), nome |-> item.filename,
                     data |-> item.st_mtime]>> \o rest
             ELSE rest

RECURSIVE SemTipo(_)
\* buscar_boleto returns (caminho, nome, data_mod), without the type
SemTipo(hits) ==
    IF hits = <<>> THEN <<>>
    ELSE <<[caminho |-> Head(hits).caminho, nome |-> Head(hits).nome,
            data |-> Head(hits).data]>> \o SemTipo(Tail(hits))

\* if not self.sftp: return []; if not numero_limpo: return []; then the
\* listing: listar_arquivos_com_data() or, non-recursive, listdir_attr here
StartBuscarBoleto ==
    /\ Idle
    /\ \E n \in Numeros, busca_recursiva \in BOOLEAN, lit \in BOOLEAN :
         LET numero_limpo == DigitsOf(n)
             f == Frame("buscar_boleto", IF busca_recursiva THEN "filter" ELSE "listdir",
                        diretorio_remoto, "",
                        [NoArg EXCEPT !.numero = numero_limpo, !.literal = lit])
         IN  IF sftp = "None" \/ numero_limpo = <<>>
             THEN Do(<<>>, <<>>, NewOp("buscar_boleto"))
             ELSE IF busca_recursiva
             THEN Do(<<f, Frame("listar_arquivos_com_data", "garantir",
                                diretorio_remoto, "", NoArg)>>,
                     ret, NewOp("buscar_boleto"))
             ELSE Do(<<f>>, ret, NewOp("buscar_boleto"))
    /\ UNCHANGED <<ssh, sftp, lastG, lastC, localFiles>>

\* for item in self.sftp.listdir_attr(dir_atual): outside any try, so an
\* exception of the listing leaves buscar_boleto
BuscarBoletoListdir ==
    /\ At("buscar_boleto", "listdir")
    /\ \E o \in LsOutcome :
         LET rec == [opRec EXCEPT !.listdirs = Min(@ + 1, IoCap)]
         IN  IF o = "ok"
             THEN Do(Pop, SemTipo(SelectHits(ArquivosDe(Top.dir, Listing(Top.dir)),
                                             Top.arg.numero, Top.arg.literal, "")),
                     rec)
             ELSE Do(<<>>, <<>>, [rec EXCEPT !.raised = TRUE])
    /\ UNCHANGED <<ssh, sftp, lastG, lastC, localFiles>>

\* the filter over the files listed by listar_arquivos_com_data()
BuscarBoletoFilter ==
    /\ At("buscar_boleto", "filter")
    /\ Do(Pop, SemTipo(SelectHits(ret, Top.arg.numero, Top.arg.literal, "")), opRec)
    /\ UNCHANGED <<ssh, sftp, lastG, lastC, localFiles>>

(* ---- buscar_por_data ---- *)

StartBuscarPorData ==
    /\ Idle
    /\ \E di \in Datas, df \in Datas :
         stack' = <<Frame("buscar_por_data", "garantir", <<>>, "",
                          [NoArg EXCEPT !.di = di, !.df = df])>>
    /\ opRec' = NewOp("buscar_por_data")
    /\ UNCHANGED <<ssh, sftp, ret, lastG, lastC, localFiles>>

BuscarPorDataGarantir ==
    /\ At("buscar_por_data", "garantir")
    /\ \E getcwdOk \in BOOLEAN, out \in ConOutcome :
         LET g == garantir_conexao(Session(ssh, sftp), getcwdOk, out)
         IN  /\ SessG(g)
             /\ IF g.ret
                THEN Do(Append(ReplaceTop([Top EXCEPT !.pc = "boletos"]),
                               Frame("listar_arquivos_com_data", "garantir",
                                     diretorio_remoto, "", NoArg)),
                        ret, CountG(opRec, g))
                ELSE Do(Pop, <<>>, CountG(opRec, g))
    /\ UNCHANGED localFiles

BuscarPorDataBoletos ==
    /\ At("buscar_por_data", "boletos")
    /\ LET r == SelectPeriodo(ret, Top.arg.di, Top.arg.df, "BOLETO")
       IN  IF diretorio_remoto_nfs # <<>>
           THEN Do(Append(ReplaceTop([Top EXCEPT !.pc = "nfs", !.acc = @ \o r]),
                          Frame("listar_arquivos_com_data", "garantir",
                                diretorio_remoto_nfs, "", NoArg)),
                   ret, opRec)
           ELSE Do(Pop, SortDataDesc(Top.acc \o r), opRec)
    /\ UNCHANGED <<ssh, sftp, lastG, lastC, localFiles>>

BuscarPorDataNfs ==
    /\ At("buscar_por_data", "nfs")
    /\ Do(Pop, SortDataDesc(Top.acc \o SelectPeriodo(ret, Top.arg.di, Top.arg.df, "NF")),
          opRec)
    /\ UNCHANGED <<ssh, sftp, lastG, lastC, localFiles>>

(* ---- baixar_boleto ---- *)

\* Remote files a caller may ask for, and the local names it may give.
CaminhosRemotos ==
    {Append(diretorio_remoto, Nome5909), Append(diretorio_remoto_nfs, Nome5909)}
NomesLocais == {<<>>, NomeCurto}

\* os.path.basename(caminho_remoto)
Basename(caminho) == caminho[Len(caminho)]

StartBaixarBoleto ==
    /\ Idle
    /\ \E c \in CaminhosRemotos, n \in NomesLocais :
         stack' = <<Frame("baixar_boleto", "garantir", c, "", [NoArg EXCEPT !.nome = n])>>
    /\ opRec' = NewOp("baixar_boleto")
    /\ UNCHANGED <<ssh, sftp, ret, lastG, lastC, localFiles>>

BaixarBoletoGarantir_mut_transfer_anyway ==
    /\ At("baixar_boleto", "garantir")
    /\ \E getcwdOk \in BOOLEAN, out \in ConOutcome :
         LET g == garantir_conexao(Session(ssh, sftp), getcwdOk, out)
         IN  /\ SessG(g)
             /\ Do(ReplaceTop([Top EXCEPT !.pc = "get"]), ret, CountG(opRec, g))
    /\ UNCHANGED localFiles

BaixarBoletoGarantir ==
    /\ At("baixar_boleto", "garantir")
    /\ \E getcwdOk \in BOOLEAN, out \in ConOutcome :
         LET g == garantir_conexao(Session(ssh, sftp), getcwdOk, out)
         IN  /\ SessG(g)
             /\ IF g.ret
                THEN Do(ReplaceTop([Top EXCEPT !.pc = "get"]), ret, CountG(opRec, g))
                ELSE Do(Pop, <<FALSE, "Nao conectado ao servidor SFTP">>, CountG(opRec, g))
    /\ UNCHANGED localFiles

\* self.sftp.get(caminho_remoto, caminho_local) and the except clauses
BaixarBoletoGet ==
    /\ At("baixar_boleto", "get")
    /\ \E o \in GetOutcome :
         LET nome_arquivo == IF Top.arg.nome = <<>> THEN Basename(Top.dir)
                             ELSE Top.arg.nome
             rec == [opRec EXCEPT !.gets = Min(@ + 1, IoCap)]
         IN  CASE o = "ok" ->
                    /\ localFiles' = {f \in localFiles : f.nome # nome_arquivo}
                                      \cup {[nome |-> nome_arquivo, origem |-> Top.dir]}
                    /\ Do(Pop, <<TRUE, nome_arquivo>>, rec)
               [] o = "perm" ->
                    /\ UNCHANGED localFiles
                    /\ Do(Pop, <<FALSE, "Erro de permissao ao acessar o arquivo">>, rec)
               [] o = "notfound" ->
                    /\ UNCHANGED localFiles
                    /\ Do(Pop, <<FALSE, "Arquivo nao encontrado no servidor">>, rec)
               [] OTHER ->
                    /\ UNCHANGED localFiles
                    /\ Do(Pop, <<FALSE, "Erro ao baixar arquivo">>, rec)
    /\ UNCHANGED <<ssh, sftp, lastG, lastC>>

-----------------------------------------------------------------------------
(* Specification of the SFTPClient *)

SftpInit ==
    /\ ssh = "None"
    /\ sftp = "None"
    /\ stack = <<>>
    /\ ret = <<>>
    /\ opRec = [NewOp("init") EXCEPT !.done = TRUE]
    /\ lastG = NoG
    /\ lastC = "none"
    /\ localFiles = {}

SftpNext ==
    \/ CallConectar
    \/ CallDesconectar
    \/ CallReconectar
    \/ CallGarantirConexao
    \/ StartListar
    \/ ListarGarantir
    \/ ListarListdir
    \/ ListarExcept
    \/ ListarLoop
    \/ ListarExtend
    \/ BuscarEmDiretorioGarantir
    \/ BuscarEmDiretorioFilter
    \/ StartBuscarBoletoENf
    \/ BuscarBoletoENfGarantir
    \/ BuscarBoletoENfBoletos
    \/ BuscarBoletoENfNfs
    \/ StartBuscarBoleto
    \/ BuscarBoletoListdir
    \/ BuscarBoletoFilter
    \/ StartBuscarPorData
    \/ BuscarPorDataGarantir
    \/ BuscarPorDataBoletos
    \/ BuscarPorDataNfs
    \/ StartBaixarBoleto
    \/ BaixarBoletoGarantir
    \/ BaixarBoletoGet

-----------------------------------------------------------------------------
(* NFSeClient (src/nfse_client.py) *)

VARIABLES
    nfCfg,      \* configuration read by __init__: certificate and endpoints
    nfSession,  \* NFSeClient._session: "None" | "bound" | "unbound"
    nfBuilt,    \* number of requests.Session objects constructed so far
    nfRec       \* record of the last public call: outcome, requests issued and
                \* files written, each <<kind, numero>>

nfseVars == <<nfCfg, nfSession, nfBuilt, nfRec>>

\* Saturation value of the counter of constructed sessions.
BuiltCap == 2

prefixo_iddps == <<"D", "P", "S", "4", "2">>

CertStates == {"unset", "missing", "badpass", "ok"}

Num18 == <<"1", "2", "3", "4", "5", "6", "7", "8", "9",
           "0", "1", "2", "3", "4", "5", "6", "7", "8">>
NumerosNfse == {<<"x">>, <<"2", ".", "9">>, Num18}
ChaveRetornada == <<"K", "2", "9">>
Chaves == {<<>>, ChaveRetornada}

RECURSIVE Zeros(_)
Zeros(n) == IF n <= 0 THEN <<>> ELSE <<"0">> \o Zeros(n - 1)

\* str.zfill(width): pads on the left, never truncates
Zfill(s, width) == Zeros(width - Len(s)) \o s

\* formatar_numero_nfse(): digits only, "" when none, else zfill(17)
formatar_numero_nfse(numero) ==
    LET numero_limpo == DigitsOf(numero)
    IN  IF numero_limpo = <<>> THEN <<>> ELSE Zfill(numero_limpo, 17)

\* construir_id_dps(): "" when the number has no digit, else prefix + number
construir_id_dps(numero_nfse) ==
    LET numero_formatado == formatar_numero_nfse(numero_nfse)
    IN  IF numero_formatado = <<>> THEN <<>> ELSE prefixo_iddps \o numero_formatado

get_session_mut_rebuild(cfg, sess) ==
    CASE cfg.cert \in {"unset", "missing"} -> [ok |-> FALSE, sess |-> "None", built |-> 0]
      [] cfg.cert = "badpass" -> [ok |-> FALSE, sess |-> "unbound", built |-> 1]
      [] OTHER -> [ok |-> TRUE, sess |-> "bound", built |-> 1]

get_session_mut_no_cert_check(cfg, sess) ==
    IF sess # "None" THEN [ok |-> TRUE, sess |-> sess, built |-> 0]
    ELSE [ok |-> TRUE, sess |-> "unbound", built |-> 1]

\* _get_session(): the stored session, or a new one bound to the certificate.
\* Raises before storing anything when the certificate path is unset or the
\* file is missing; the session is stored before the adapters are mounted.
get_session(cfg, sess) ==
    IF sess # "None" THEN [ok |-> TRUE, sess |-> sess, built |-> 0]
    ELSE CASE cfg.cert = "unset"   -> [ok |-> FALSE, sess |-> "None", built |-> 0]
           [] cfg.cert = "missing" -> [ok |-> FALSE, sess |-> "None", built |-> 0]
           [] cfg.cert = "badpass" ->
                IF cfg.iddps \/ cfg.chave \/ cfg.pdf
                THEN [ok |-> FALSE, sess |-> "unbound", built |-> 1]
                ELSE [ok |-> TRUE, sess |-> "unbound", built |-> 1]
           [] OTHER ->
                [ok |-> TRUE,
                 sess |-> IF cfg.iddps \/ cfg.chave \/ cfg.pdf THEN "bound" ELSE "unbound",
                 built |-> 1]

\* Responses of GET endpoint_iddps + id_dps
RespChave == {"200_chave", "200_chave_vazia", "200_sem_campo", "200_nao_json",
              "404", "403", "401", "500", "timeout", "conexao"}

\* Responses of GET endpoint_chave_acesso + chave
RespXml == {"200_xml", "200_b64_invalido", "200_gzip_invalido", "200_utf8_invalido",
            "200_sem_campo", "200_nao_json", "404", "403", "401", "500", "timeout",
            "conexao"}

\* Responses of GET endpoint_pdf + chave; 200 carries Content-Type and body
RespPdf == {"200_ctype_pdf", "200_magic_pdf", "200_html", "404", "403", "401", "500",
            "timeout", "conexao"}

Req(endpoint, arg) == [endpoint |-> endpoint, arg |-> arg]

\* buscar_chave_acesso() once the ID DPS is built: gs is what _get_session
\* gives when the call reaches it
ChaveAcessoDe(cfg, sess, resp, id_dps, gs) ==
    LET fail(msg, requested) ==
            [ok |-> FALSE, chave |-> <<>>, msg |-> msg, id_dps |-> id_dps,
             sess |-> gs.sess, built |-> gs.built,
             reqs |-> IF requested THEN <<Req("iddps", id_dps)>> ELSE <<>>]
        found(chave) ==
            [ok |-> TRUE, chave |-> chave, msg |-> "", id_dps |-> id_dps,
             sess |-> gs.sess, built |-> gs.built, reqs |-> <<Req("iddps", id_dps)>>]
    IN  IF id_dps = <<>>
        THEN [ok |-> FALSE, chave |-> <<>>, msg |-> "Numero da NFSe invalido",
              id_dps |-> <<>>, sess |-> sess, built |-> 0, reqs |-> <<>>]
        ELSE IF ~cfg.iddps
        THEN [ok |-> FALSE, chave |-> <<>>, msg |-> "Endpoint de busca DPS nao configurado",
              id_dps |-> id_dps, sess |-> sess, built |-> 0, reqs |-> <<>>]
        ELSE IF ~gs.ok THEN fail("Erro ao buscar chave de acesso", FALSE)
        ELSE CASE resp = "200_chave"       -> found(ChaveRetornada)
               [] resp = "200_chave_vazia" -> found(<<>>)
               [] resp = "200_sem_campo"   -> fail("Campo chaveAcesso nao encontrado", TRUE)
               [] resp = "200_nao_json"    -> fail("Resposta invalida (nao e JSON)", TRUE)
               [] resp = "404"             -> fail("NFSe nao encontrada para o ID", TRUE)
               [] resp = "403"             -> fail("Acesso negado (403)", TRUE)
               [] resp = "401"             -> fail("Nao autorizado (401)", TRUE)
               [] resp = "timeout"         -> fail("Timeout ao consultar endpoint", TRUE)
               [] resp = "conexao"         -> fail("Erro de conexao ao servidor SEFIN", TRUE)
               [] OTHER                    -> fail("Erro HTTP", TRUE)

\* buscar_chave_acesso(): (sucesso, chave or message, id_dps); the second
\* slot of the tuple is kept as two fields, chave (success) and msg (failure)
buscar_chave_acesso(cfg, sess, numero_nfse, resp) ==
    ChaveAcessoDe(cfg, sess, resp, construir_id_dps(numero_nfse), get_session(cfg, sess))

\* consultar_nfse() given what _get_session gives when the call reaches it
NfseDe(cfg, sess, chave_acesso, resp, gs) ==
    LET out(ok, val, requested) ==
            [ok |-> ok, val |-> val, sess |-> gs.sess, built |-> gs.built,
             reqs |-> IF requested THEN <<Req("chave", chave_acesso)>> ELSE <<>>]
    IN  IF chave_acesso = <<>>
        THEN [ok |-> FALSE, val |-> "Chave de acesso nao informada", sess |-> sess,
              built |-> 0, reqs |-> <<>>]
        ELSE IF ~cfg.chave
        THEN [ok |-> FALSE, val |-> "Endpoint de consulta NFSe nao configurado",
              sess |-> sess, built |-> 0, reqs |-> <<>>]
        ELSE IF ~gs.ok THEN out(FALSE, "Erro ao consultar NFSe", FALSE)
        ELSE CASE resp = "200_xml"         -> out(TRUE, "xml", TRUE)
               [] resp \in {"200_b64_invalido", "200_gzip_invalido", "200_utf8_invalido"}
                                           -> out(FALSE, "Erro ao consultar NFSe", TRUE)
               [] resp = "200_sem_campo"   -> out(FALSE, "Campo nfseXmlGZipB64 nao encontrado", TRUE)
               [] resp = "200_nao_json"    -> out(FALSE, "Resposta invalida (nao e JSON)", TRUE)
               [] resp = "404"             -> out(FALSE, "NFSe nao encontrada para a chave", TRUE)
               [] resp = "403"             -> out(FALSE, "Acesso negado (403)", TRUE)
               [] resp = "401"             -> out(FALSE, "Nao autorizado (401)", TRUE)
               [] resp = "timeout"         -> out(FALSE, "Timeout ao consultar NFSe", TRUE)
               [] resp = "conexao"         -> out(FALSE, "Erro de conexao ao servidor SEFIN", TRUE)
               [] OTHER                    -> out(FALSE, "Erro HTTP", TRUE)

\* consultar_nfse(): (sucesso, decoded xml or message)
consultar_nfse(cfg, sess, chave_acesso, resp) ==
    NfseDe(cfg, sess, chave_acesso, resp, get_session(cfg, sess))

\* buscar_xml_nfse(), the return after step 2: a is the result of step 1, b of step 2
XmlAposConsulta(numero_nfse, a, b) ==
    [ok |-> b.ok, val |-> b.val,
     info |-> [numero_nfse |-> numero_nfse, id_dps |-> a.id_dps, chave_acesso |-> a.chave],
     sess |-> b.sess, built |-> a.built + b.built, reqs |-> a.reqs \o b.reqs,
     step1 |-> [ok |-> a.ok, msg |-> a.msg],
     steps |-> <<"buscar_chave_acesso", "consultar_nfse">>]

XmlAposChave_mut_no_stop(cfg, numero_nfse, r2, a) ==
    XmlAposConsulta(numero_nfse, [a EXCEPT !.chave = ChaveRetornada],
                    consultar_nfse(cfg, a.sess, ChaveRetornada, r2))

\* buscar_xml_nfse() from the result a of step 1: return on failure, else step 2
XmlAposChave(cfg, numero_nfse, r2, a) ==
    IF ~a.ok
    THEN [ok |-> FALSE, val |-> a.msg,
          info |-> [numero_nfse |-> numero_nfse, id_dps |-> a.id_dps, chave_acesso |-> <<>>],
          sess |-> a.sess, built |-> a.built, reqs |-> a.reqs,
          step1 |-> [ok |-> a.ok, msg |-> a.msg],
          steps |-> <<"buscar_chave_acesso">>]
    ELSE XmlAposConsulta(numero_nfse, a, consultar_nfse(cfg, a.sess, a.chave, r2))

\* buscar_xml_nfse(): step 1, and step 2 only after step 1 succeeded
buscar_xml_nfse(cfg, sess, numero_nfse, r1, r2) ==
    XmlAposChave(cfg, numero_nfse, r2, buscar_chave_acesso(cfg, sess, numero_nfse, r1))

\* salvar_xml(): writes NFSe_<numero>.xml, or reports the write error
SaveOutcome == {"ok", "perm", "erro"}

\* buscar_e_salvar_xml_nfse() from the result x of the lookup
SalvarApos(numero_nfse, save, x) ==
    LET base == [ok |-> x.ok, val |-> x.val, info |-> x.info, sess |-> x.sess,
                 built |-> x.built, reqs |-> x.reqs, step1 |-> x.step1,
                 steps |-> x.steps, wrote |-> {}]
    IN  IF ~x.ok THEN base
        ELSE CASE save = "ok" ->
                    [base EXCEPT !.val = "caminho", !.wrote = {<<"xml", numero_nfse>>},
                                 !.steps = Append(@, "salvar_xml")]
               [] save = "perm" ->
                    [base EXCEPT !.ok = FALSE, !.val = "Erro de permissao ao salvar o arquivo",
                                 !.steps = Append(@, "salvar_xml")]
               [] OTHER ->
                    [base EXCEPT !.ok = FALSE, !.val = "Erro ao salvar XML",
                                 !.steps = Append(@, "salvar_xml")]

\* buscar_e_salvar_xml_nfse(): the lookup, then the file when it succeeded
buscar_e_salvar_xml_nfse(cfg, sess, numero_nfse, r1, r2, save) ==
    SalvarApos(numero_nfse, save, buscar_xml_nfse(cfg, sess, numero_nfse, r1, r2))

PdfDe_mut_any_200(cfg, sess, chave_acesso, numero_nfse, resp, save, gs) ==
    [ok |-> resp \in {"200_ctype_pdf", "200_magic_pdf", "200_html"},
     val |-> "caminho", sess |-> gs.sess, built |-> gs.built,
     reqs |-> <<Req("pdf", chave_acesso)>>,
     wrote |-> IF resp \in {"200_ctype_pdf", "200_magic_pdf", "200_html"}
               THEN {<<"pdf", numero_nfse>>} ELSE {}]

\* baixar_pdf_nfse() given what _get_session gives when the call reaches it
PdfDe(cfg, sess, chave_acesso, numero_nfse, resp, save, gs) ==
    LET out(ok, val, requested, wrote) ==
            [ok |-> ok, val |-> val, sess |-> gs.sess, built |-> gs.built,
             reqs |-> IF requested THEN <<Req("pdf", chave_acesso)>> ELSE <<>>,
             wrote |-> wrote]
    IN  IF chave_acesso = <<>>
        THEN [ok |-> FALSE, val |-> "Chave de acesso nao informada", sess |-> sess,
              built |-> 0, reqs |-> <<>>, wrote |-> {}]
        ELSE IF ~cfg.pdf
        THEN [ok |-> FALSE, val |-> "Endpoint de PDF (danfse) nao configurado",
              sess |-> sess, built |-> 0, reqs |-> <<>>, wrote |-> {}]
        ELSE IF ~gs.ok THEN out(FALSE, "Erro ao baixar PDF", FALSE, {})
        ELSE CASE resp \in {"200_ctype_pdf", "200_magic_pdf"} ->
                    CASE save = "ok"   -> out(TRUE, "caminho", TRUE, {<<"pdf", numero_nfse>>})
                      [] save = "perm" -> out(FALSE, "Erro de permissao ao salvar o arquivo PDF",
                                              TRUE, {})
                      [] OTHER         -> out(FALSE, "Erro ao baixar PDF", TRUE, {})
               [] resp = "200_html" -> out(FALSE, "Resposta nao e PDF", TRUE, {})
               [] resp = "404"      -> out(FALSE, "PDF nao encontrado para a chave", TRUE, {})
               [] resp = "403"      -> out(FALSE, "Acesso negado (403)", TRUE, {})
               [] resp = "401"      -> out(FALSE, "Nao autorizado (401)", TRUE, {})
               [] resp = "timeout"  -> out(FALSE, "Timeout ao baixar PDF", TRUE, {})
               [] resp = "conexao"  -> out(FALSE, "Erro de conexao ao servidor", TRUE, {})
               [] OTHER             -> out(FALSE, "Erro HTTP", TRUE, {})

\* baixar_pdf_nfse(): writes NFSe_<numero>.pdf for a 200 response that is a PDF
baixar_pdf_nfse(cfg, sess, chave_acesso, numero_nfse, resp, save) ==
    PdfDe(cfg, sess, chave_acesso, numero_nfse, resp, save, get_session(cfg, sess))

(* ---- the public calls as actions ---- *)

NfRecord(op, numero, ok, val, info, reqs, steps, step1, wrote) ==
    [op |-> op, numero |-> numero, ok |-> ok, val |-> val, info |-> info,
     reqs |-> reqs, steps |-> steps, step1 |-> step1, wrote |-> wrote]

NoInfo == [numero_nfse |-> <<>>, id_dps |-> <<>>, chave_acesso |-> <<>>]
NoStep == [ok |-> FALSE, msg |-> ""]

\* The client and the record of the call after a call that returned r.
NfAfter(r, rec) ==
    /\ nfSession' = r.sess
    /\ nfBuilt' = Min(nfBuilt + r.built, BuiltCap)
    /\ nfRec' = rec
    /\ UNCHANGED nfCfg

\* Responses drawn for the requests of a composite lookup: one of each kind
\* of branch.  A response is drawn only for a request that can be issued.
RespChaveLookup == {"200_chave", "200_chave_vazia", "200_sem_campo", "404", "timeout"}
RespXmlLookup == {"200_xml", "200_gzip_invalido", "404", "timeout"}
NoResp == "500"

RespChaveFor(n, set) == IF DigitsOf(n) = <<>> THEN {NoResp} ELSE set
RespXmlFor(r1, set) == IF r1 \in {"200_chave", "200_chave_vazia"} THEN set ELSE {NoResp}

RecChaveAcesso(n, r) ==
    NfRecord("buscar_chave_acesso", n, r.ok, r.msg,
             [numero_nfse |-> n, id_dps |-> r.id_dps, chave_acesso |-> r.chave],
             r.reqs, <<"buscar_chave_acesso">>, [ok |-> r.ok, msg |-> r.msg], {})

RecSimples(op, n, c, r, wrote) ==
    NfRecord(op, n, r.ok, r.val, [NoInfo EXCEPT !.chave_acesso = c], r.reqs,
             <<op>>, NoStep, wrote)

\* baixar_pdf_nfse: the returned tuple, with the response that was received
RecPdf(n, c, resp, r) ==
    RecSimples("baixar_pdf_nfse", n, c, r, r.wrote) @@ [resp |-> resp]

RecLookup(op, n, r, wrote) ==
    NfRecord(op, n, r.ok, r.val, r.info, r.reqs, r.steps, r.step1, wrote)

NfBuscarChaveAcesso ==
    \E n \in NumerosNfse :
      \E resp \in RespChaveFor(n, RespChave) :
        LET r == buscar_chave_acesso(nfCfg, nfSession, n, resp)
        IN  NfAfter(r, RecChaveAcesso(n, r))

NfConsultarNfse ==
    \E c \in Chaves, resp \in RespXml :
        LET r == consultar_nfse(nfCfg, nfSession, c, resp)
        IN  NfAfter(r, RecSimples("consultar_nfse", <<>>, c, r, {}))

NfBuscarXmlNfse ==
    \E n \in NumerosNfse :
      \E r1 \in RespChaveFor(n, RespChaveLookup) :
        \E r2 \in RespXmlFor(r1, RespXmlLookup) :
          LET r == buscar_xml_nfse(nfCfg, nfSession, n, r1, r2)
          IN  NfAfter(r, RecLookup("buscar_xml_nfse", n, r, {}))

NfBuscarESalvarXmlNfse ==
    \E n \in NumerosNfse :
      \E r1 \in RespChaveFor(n, RespChaveLookup) :
        \E r2 \in RespXmlFor(r1, RespXmlLookup) :
          \E save \in (IF r2 = "200_xml" THEN SaveOutcome ELSE {"ok"}) :
            LET r == buscar_e_salvar_xml_nfse(nfCfg, nfSession, n, r1, r2, save)
            IN  NfAfter(r, RecLookup("buscar_e_salvar_xml_nfse", n, r, r.wrote))

NfBaixarPdfNfse ==
    \E c \in Chaves, n \in {<<"x">>, <<"2", ".", "9">>}, resp \in RespPdf :
      \E save \in (IF resp \in {"200_ctype_pdf", "200_magic_pdf"} THEN SaveOutcome
                   ELSE {"ok"}) :
        LET r == baixar_pdf_nfse(nfCfg, nfSession, c, n, resp, save)
        IN  NfAfter(r, RecPdf(n, c, resp, r))

\* Endpoint settings: all configured, or one of the three left empty.
EndpointConfigs ==
    {[iddps |-> TRUE, chave |-> TRUE, pdf |-> TRUE],
     [iddps |-> FALSE, chave |-> TRUE, pdf |-> TRUE],
     [iddps |-> TRUE, chave |-> FALSE, pdf |-> TRUE],
     [iddps |-> TRUE, chave |-> TRUE, pdf |-> FALSE]}

NfseConfigs ==
    {[cert |-> c, iddps |-> e.iddps, chave |-> e.chave, pdf |-> e.pdf] :
        c \in CertStates, e \in EndpointConfigs}

NfseStart ==
    /\ nfSession = "None"
    /\ nfBuilt = 0
    /\ nfRec = NfRecord("init", <<>>, FALSE, "", NoInfo, <<>>, <<>>, NoStep, {})

NfseInit ==
    /\ nfCfg \in NfseConfigs
    /\ NfseStart

\* The configuration held while the other components are examined.
NfseFixed ==
    /\ nfCfg = [cert |-> "ok", iddps |-> TRUE, chave |-> TRUE, pdf |-> TRUE]
    /\ NfseStart

NfseNext ==
    \/ NfBuscarChaveAcesso
    \/ NfConsultarNfse
    \/ NfBuscarXmlNfse
    \/ NfBuscarESalvarXmlNfse
    \/ NfBaixarPdfNfse

-----------------------------------------------------------------------------
(* BuscaBoletoApp (src/interface.py): the Tk main thread, the callbacks     *)
(* scheduled with root.after and the daemon threads the handlers start.    *)
(* All threads call the one SFTPClient stored in self.ftp_client.          *)

VARIABLES
    conectado,           \* self.conectado
    extraindo_clientes,  \* self.extraindo_clientes
    cancelar_extracao,   \* self.cancelar_extracao
    modal_conexao,       \* the "Conectando..." modal is open and holds the grab
    callback_pendente,   \* self._conexao_callback_pendente: "None" | handler name
    botoes,              \* state of btn_buscar, btn_buscar_data, btn_baixar
    tree_resultados,     \* rows [iid, chave, cliente] in display order
    proximo_iid,         \* next item id the Treeview hands out
    fila_after,          \* callbacks scheduled with root.after(0, ...), in order
    threads,             \* the daemon threads, by slot
    pilha,               \* handlers of the main thread waiting in a root.update() loop
    pedidos              \* number of searches and downloads the user has started

appVars == <<conectado, extraindo_clientes, cancelar_extracao, modal_conexao,
             callback_pendente, botoes, tree_resultados, proximo_iid, fila_after,
             threads, pilha, pedidos>>

\* Number of searches and downloads the user starts.
MaxPedidos == 2
\* Depth of handlers nested in root.update() loops.
MaxEspera == 2

\* Largest item id handed out when ordenar_coluna inserts the rows again.
MaxIid == 6

Carregando == "Carregando..."

\* The server as the application sees it: a search finds no document or two
\* groups of one BOLETO each; the PDF of the first group names the client, the
\* PDF of the second has no client line.
GruposPorBusca == {0, 2}
ClienteDoPdf(chave) == IF chave = 1 THEN "ACME" ELSE "-"
\* Rows the user marks before a download: one, or several.
Marcados == {1, 2}

\* One thread runs per started search (the search, then its extraction) and
\* per started download; the connection thread runs alone under the modal.
Slots == 1..MaxPedidos

Thread(kind, pc, n) ==
    [kind |-> kind, pc |-> pc, n |-> n, grupos |-> <<>>,
     cancelado |-> FALSE,      \* cancellation was requested while it ran
     aposCancelar |-> FALSE]   \* it started a group after that request
NoThread == Thread("none", "", 0)

\* threading.Thread(target=...).start()
StartThread(ths, t) ==
    LET s == CHOOSE s \in Slots :
                 /\ ths[s] = NoThread
                 /\ \A u \in Slots : ths[u] = NoThread => s <= u
    IN  [ths EXCEPT ![s] = t]

\* A thread is inside a call of the SFTPClient.
UsaSftp(t) ==
    \/ t.kind \in {"buscar_boleto", "buscar_por_data", "baixar"} /\ t.pc = "call"
    \/ t.kind = "extrair" /\ t.pc = "extract"

\* The extractions running when self.cancelar_extracao is set.
Marcar(ths) ==
    [s \in Slots |-> IF ths[s].kind = "extrair"
                     THEN [ths[s] EXCEPT !.cancelado = TRUE] ELSE ths[s]]

Callback(cb, ok, r, iid, cli) == [cb |-> cb, ok |-> ok, r |-> r, iid |-> iid, cli |-> cli]

Botao(fn) == IF fn = "buscar_boleto" THEN "btn_buscar" ELSE "btn_buscar_data"

\* the rows _buscar_callback inserts for r groups of one BOLETO each
NovasLinhas(r, base) ==
    [k \in 1..r |-> [iid |-> base + k - 1, chave |-> k, cliente |-> Carregando]]

\* the part of the main thread a handler reads and writes
Estado(con) ==
    [cancelar |-> cancelar_extracao, threads |-> threads, pilha |-> pilha,
     modal |-> modal_conexao, callback |-> callback_pendente, botoes |-> botoes,
     tree |-> tree_resultados, con |-> con]

\* buscar_boleto / buscar_por_data from the connection test on
Prosseguir(fn, st) ==
    IF ~st.con
    THEN [st EXCEPT !.modal = TRUE, !.callback = fn,
                    !.threads = StartThread(@, Thread("conectar", "call", 0))]
    ELSE [st EXCEPT !.botoes[Botao(fn)] = "disabled", !.tree = <<>>,
                    !.threads = StartThread(@, Thread(fn, "call", 0))]

\* buscar_boleto / buscar_por_data up to the point where the handler returns
\* or enters the wait loop of _mostrar_modal_extracao: the states it may leave.
\* A refused input (address range, empty number, invalid dates) and the
\* answer "Nao" return without effect.
Invocar(fn, st) ==
    IF extraindo_clientes
    THEN {st} \cup (IF Len(st.pilha) < MaxEspera
                    THEN {[st EXCEPT !.cancelar = TRUE, !.threads = Marcar(@),
                                     !.pilha = Append(@, fn)]}
                    ELSE {})
    ELSE {st, Prosseguir(fn, st)}

Aplicar(nx) ==
    /\ cancelar_extracao' = nx.cancelar
    /\ threads' = nx.threads
    /\ pilha' = nx.pilha
    /\ modal_conexao' = nx.modal
    /\ callback_pendente' = nx.callback
    /\ botoes' = nx.botoes
    /\ tree_resultados' = nx.tree

(* ---- user events; the modal's grab keeps them off the main window ---- *)

Buscar(fn, vias) ==
    /\ ~modal_conexao
    /\ pedidos < MaxPedidos
    /\ \E via \in vias : via = "botao" => botoes[Botao(fn)] = "normal"
    /\ \E nx \in Invocar(fn, Estado(conectado)) :
         /\ Aplicar(nx)
         /\ pedidos' = IF nx = Estado(conectado) THEN pedidos
                       ELSE pedidos + 1
    /\ UNCHANGED <<conectado, extraindo_clientes, proximo_iid, fila_after>>

\* btn_buscar, or <Return> in entry_numero
AppBuscarBoleto == Buscar("buscar_boleto", {"botao", "return"})

\* btn_buscar_data
AppBuscarPorData == Buscar("buscar_por_data", {"botao"})

AppCancelarExtracaoClientes_mut_rollback ==
    /\ ~modal_conexao
    /\ extraindo_clientes
    /\ Len(pilha) < MaxEspera
    /\ cancelar_extracao' = TRUE
    /\ threads' = Marcar(threads)
    /\ pilha' = Append(pilha, "cancelar_extracao_clientes")
    /\ tree_resultados' = [i \in DOMAIN tree_resultados |->
                              [tree_resultados[i] EXCEPT !.cliente = Carregando]]
    /\ UNCHANGED <<conectado, extraindo_clientes, modal_conexao, callback_pendente,
                   botoes, proximo_iid, fila_after, pedidos>>

\* cancelar_extracao_clientes up to its wait loop
AppCancelarExtracaoClientes ==
    /\ ~modal_conexao
    /\ extraindo_clientes
    /\ Len(pilha) < MaxEspera
    /\ cancelar_extracao' = TRUE
    /\ threads' = Marcar(threads)
    /\ pilha' = Append(pilha, "cancelar_extracao_clientes")
    /\ UNCHANGED <<conectado, extraindo_clientes, modal_conexao, callback_pendente,
                   botoes, tree_resultados, proximo_iid, fila_after, pedidos>>

\* while self.extraindo_clientes and elapsed < timeout: the loop ends, and the
\* handler that waited goes on
AppFimEspera ==
    /\ pilha # <<>>
    /\ \E timeout \in BOOLEAN : ~extraindo_clientes \/ timeout
    /\ LET fn == pilha[Len(pilha)]
           st == [Estado(conectado) EXCEPT !.pilha = SubSeq(pilha, 1, Len(pilha) - 1)]
       IN  IF fn = "cancelar_extracao_clientes"
           THEN Aplicar(st)
           ELSE \E nx \in {st, Prosseguir(fn, st)} : Aplicar(nx)
    /\ UNCHANGED <<conectado, extraindo_clientes, proximo_iid, fila_after, pedidos>>

\* baixar_selecionado with n rows marked: btn_baixar, or a double click
AppBaixarSelecionado ==
    /\ ~modal_conexao
    /\ pedidos < MaxPedidos
    /\ \E via \in {"botao", "duplo_clique"} : via = "botao" => botoes.btn_baixar = "normal"
    /\ \E n \in Marcados :
         /\ n <= Len(tree_resultados)
         /\ conectado
         /\ botoes' = [botoes EXCEPT !.btn_baixar = "disabled"]
         /\ threads' = StartThread(threads, Thread("baixar", "call", n))
         /\ pedidos' = pedidos + 1
    /\ UNCHANGED <<conectado, extraindo_clientes, cancelar_extracao, modal_conexao,
                   callback_pendente, tree_resultados, proximo_iid, fila_after, pilha>>

(* ---- callbacks run by the event loop (mainloop or root.update) ---- *)

AppConectarCallbackModal_mut_run_on_failure ==
    /\ fila_after # <<>>
    /\ Head(fila_after).cb = "_conectar_callback_modal"
    /\ LET cb == Head(fila_after)
           st == [Estado(cb.ok) EXCEPT !.modal = FALSE]
       IN  /\ conectado' = cb.ok
           /\ IF callback_pendente # "None"
              THEN \E nx \in Invocar(callback_pendente,
                                     [st EXCEPT !.callback = "None", !.con = TRUE]) :
                      Aplicar(nx)
              ELSE Aplicar(st)
    /\ fila_after' = Tail(fila_after)
    /\ UNCHANGED <<extraindo_clientes, proximo_iid, pedidos>>

\* _conectar_callback_modal(sucesso, mensagem)
AppConectarCallbackModal ==
    /\ fila_after # <<>>
    /\ Head(fila_after).cb = "_conectar_callback_modal"
    /\ LET cb == Head(fila_after)
           st == [Estado(cb.ok) EXCEPT !.modal = FALSE]
       IN  /\ conectado' = cb.ok
           /\ IF cb.ok /\ callback_pendente # "None"
              THEN \E nx \in Invocar(callback_pendente, [st EXCEPT !.callback = "None"]) :
                      Aplicar(nx)
              ELSE Aplicar(st)
    /\ fila_after' = Tail(fila_after)
    /\ UNCHANGED <<extraindo_clientes, proximo_iid, pedidos>>

\* _buscar_callback / _buscar_data_callback, and _extrair_clientes_async
AppBuscarCallback ==
    /\ fila_after # <<>>
    /\ Head(fila_after).cb \in {"buscar_boleto", "buscar_por_data"}
    /\ LET cb == Head(fila_after)
       IN  /\ botoes' = [botoes EXCEPT ![Botao(cb.cb)] = "normal"]
           /\ tree_resultados' = tree_resultados \o NovasLinhas(cb.r, proximo_iid)
           /\ proximo_iid' = proximo_iid + cb.r
           /\ IF cb.r = 0
              THEN UNCHANGED <<extraindo_clientes, cancelar_extracao, threads>>
              ELSE /\ extraindo_clientes' = TRUE
                   /\ cancelar_extracao' = FALSE
                   /\ threads' = StartThread(threads, Thread("extrair", "scan", 0))
    /\ fila_after' = Tail(fila_after)
    /\ UNCHANGED <<conectado, modal_conexao, callback_pendente, pilha, pedidos>>

\* atualizar_item / marcar_erro: the row may be gone, the error is swallowed
AppAtualizarItem ==
    /\ fila_after # <<>>
    /\ Head(fila_after).cb = "atualizar_item"
    /\ LET cb == Head(fila_after)
       IN  tree_resultados' =
               [i \in DOMAIN tree_resultados |->
                   IF tree_resultados[i].iid = cb.iid
                   THEN [tree_resultados[i] EXCEPT !.cliente = cb.cli]
                   ELSE tree_resultados[i]]
    /\ fila_after' = Tail(fila_after)
    /\ UNCHANGED <<conectado, extraindo_clientes, cancelar_extracao, modal_conexao,
                   callback_pendente, botoes, proximo_iid, threads, pilha, pedidos>>

\* finalizar_extracao
AppFinalizarExtracao ==
    /\ fila_after # <<>>
    /\ Head(fila_after).cb = "finalizar_extracao"
    /\ extraindo_clientes' = FALSE
    /\ fila_after' = Tail(fila_after)
    /\ UNCHANGED <<conectado, cancelar_extracao, modal_conexao, callback_pendente,
                   botoes, tree_resultados, proximo_iid, threads, pilha, pedidos>>

\* _baixar_callback / _baixar_multiplos_callback
AppBaixarCallback ==
    /\ fila_after # <<>>
    /\ Head(fila_after).cb = "_baixar_callback"
    /\ botoes' = [botoes EXCEPT !.btn_baixar = "normal"]
    /\ fila_after' = Tail(fila_after)
    /\ UNCHANGED <<conectado, extraindo_clientes, cancelar_extracao, modal_conexao,
                   callback_pendente, tree_resultados, proximo_iid, threads, pilha,
                   pedidos>>

(* ---- the threads ---- *)

Sai(s, cb) ==
    /\ threads' = [threads EXCEPT ![s] = NoThread]
    /\ fila_after' = Append(fila_after, cb)

\* conectar_thread: SFTPClient().conectar(), then the callback is scheduled
ThreadConectar ==
    /\ \E s \in Slots :
         /\ threads[s].kind = "conectar"
         /\ \E sucesso \in BOOLEAN :
              Sai(s, Callback("_conectar_callback_modal", sucesso, 0, 0, ""))
    /\ UNCHANGED <<conectado, extraindo_clientes, cancelar_extracao, modal_conexao,
                   callback_pendente, botoes, tree_resultados, proximo_iid, pilha,
                   pedidos>>

\* buscar_thread: the search returns r groups
ThreadBuscar ==
    /\ \E s \in Slots :
         /\ threads[s].kind \in {"buscar_boleto", "buscar_por_data"}
         /\ \E r \in GruposPorBusca : Sai(s, Callback(threads[s].kind, TRUE, r, 0, ""))
    /\ UNCHANGED <<conectado, extraindo_clientes, cancelar_extracao, modal_conexao,
                   callback_pendente, botoes, tree_resultados, proximo_iid, pilha,
                   pedidos>>

\* baixar_thread: one baixar_boleto call returns
ThreadBaixar ==
    /\ \E s \in Slots :
         /\ threads[s].kind = "baixar"
         /\ IF threads[s].n > 1
            THEN /\ threads' = [threads EXCEPT ![s].n = @ - 1]
                 /\ UNCHANGED fila_after
            ELSE Sai(s, Callback("_baixar_callback", TRUE, 0, 0, ""))
    /\ UNCHANGED <<conectado, extraindo_clientes, cancelar_extracao, modal_conexao,
                   callback_pendente, botoes, tree_resultados, proximo_iid, pilha,
                   pedidos>>

RECURSIVE ChavesEmOrdem(_)
\* the keys of the dict grupos, in insertion order
ChavesEmOrdem(rows) ==
    IF rows = <<>> THEN <<>>
    ELSE LET antes == ChavesEmOrdem(SubSeq(rows, 1, Len(rows) - 1))
             c == rows[Len(rows)].chave
         IN  IF \E i \in DOMAIN antes : antes[i] = c THEN antes ELSE Append(antes, c)

RECURSIVE EmOrdem(_)
\* the item ids of one group, in row order
EmOrdem(S) ==
    IF S = {} THEN <<>>
    ELSE LET m == CHOOSE x \in S : \A y \in S : x <= y
         IN  <<m>> \o EmOrdem(S \ {m})

\* extrair_thread, first loop: the rows still "Carregando...", grouped by key
Grupos(rows) ==
    LET pend == SelectSeq(rows, LAMBDA x : x.cliente = Carregando)
        cs == ChavesEmOrdem(pend)
    IN  [k \in DOMAIN cs |->
            [chave |-> cs[k],
             itens |-> EmOrdem({pend[i].iid :
                                   i \in {j \in DOMAIN pend : pend[j].chave = cs[k]}})]]

\* extrair_thread: the loop over the rows; it breaks when the flag is set
ThreadExtrairScan ==
    /\ \E s \in Slots :
         /\ threads[s].kind = "extrair" /\ threads[s].pc = "scan"
         /\ threads' = [threads EXCEPT
                           ![s].pc = "check",
                           ![s].grupos = IF cancelar_extracao THEN <<>>
                                         ELSE Grupos(tree_resultados)]
    /\ UNCHANGED <<conectado, extraindo_clientes, cancelar_extracao, modal_conexao,
                   callback_pendente, botoes, tree_resultados, proximo_iid, fila_after,
                   pilha, pedidos>>

\* extrair_thread: head of the loop over the groups, if self.cancelar_extracao: break
ThreadExtrairCheck ==
    /\ \E s \in Slots :
         /\ threads[s].kind = "extrair" /\ threads[s].pc = "check"
         /\ IF threads[s].grupos = <<>> \/ cancelar_extracao
            THEN Sai(s, Callback("finalizar_extracao", TRUE, 0, 0, ""))
            ELSE /\ threads' = [threads EXCEPT ![s].pc = "extract",
                                               ![s].aposCancelar = threads[s].cancelado]
                 /\ UNCHANGED fila_after
    /\ UNCHANGED <<conectado, extraindo_clientes, cancelar_extracao, modal_conexao,
                   callback_pendente, botoes, tree_resultados, proximo_iid, pilha,
                   pedidos>>

RECURSIVE Atualizacoes(_, _)
Atualizacoes(itens, cli) ==
    IF itens = <<>> THEN <<>>
    ELSE <<Callback("atualizar_item", TRUE, 0, Head(itens), cli)>>
            \o Atualizacoes(Tail(itens), cli)

\* extrair_thread: extrair_cliente_do_pdf returns, one update per item of the group
ThreadExtrairGrupo ==
    /\ \E s \in Slots :
         /\ threads[s].kind = "extrair" /\ threads[s].pc = "extract"
         /\ LET g == Head(threads[s].grupos)
            IN  fila_after' = fila_after \o Atualizacoes(g.itens, ClienteDoPdf(g.chave))
         /\ threads' = [threads EXCEPT ![s].pc = "check", ![s].grupos = Tail(@)]
    /\ UNCHANGED <<conectado, extraindo_clientes, cancelar_extracao, modal_conexao,
                   callback_pendente, botoes, tree_resultados, proximo_iid, pilha,
                   pedidos>>

\* ordenar_coluna, second half: the sorted rows grouped by document key, the
\* groups in the order of their first row
Reagrupar(rows) ==
    LET cs == ChavesEmOrdem(rows)
        DoGrupo(k) == SelectSeq(rows, LAMBDA x : x.chave = cs[k])
        Ate[k \in 0..Len(cs)] == IF k = 0 THEN <<>> ELSE Ate[k - 1] \o DoGrupo(k)
    IN  Ate[Len(cs)]

\* ordenar_coluna: a click on a column heading.  Every row is deleted and
\* inserted again with the values it had, so the Treeview gives it a new
\* item id; the sort puts the rows in ascending or descending order.
AppOrdenarColuna ==
    /\ ~modal_conexao
    /\ tree_resultados # <<>>
    /\ proximo_iid + Len(tree_resultados) - 1 <= MaxIid
    /\ \E reverso \in BOOLEAN :
         LET n == Len(tree_resultados)
             ordenados == [i \in 1..n |-> IF reverso THEN tree_resultados[n + 1 - i]
                                          ELSE tree_resultados[i]]
             novos == Reagrupar(ordenados)
         IN  tree_resultados' =
                 [i \in 1..n |-> [novos[i] EXCEPT !.iid = proximo_iid + i - 1]]
    /\ proximo_iid' = proximo_iid + Len(tree_resultados)
    /\ UNCHANGED <<conectado, extraindo_clientes, cancelar_extracao, modal_conexao,
                   callback_pendente, botoes, fila_after, threads, pilha, pedidos>>

AppStart ==
    /\ conectado = FALSE
    /\ extraindo_clientes = FALSE
    /\ cancelar_extracao = FALSE
    /\ modal_conexao = FALSE
    /\ callback_pendente = "None"
    /\ botoes = [btn_buscar |-> "normal", btn_buscar_data |-> "normal",
                 btn_baixar |-> "normal"]
    /\ tree_resultados = <<>>
    /\ proximo_iid = 1
    /\ fila_after = <<>>
    /\ threads = [s \in Slots |-> NoThread]
    /\ pilha = <<>>
    /\ pedidos = 0

AppNext ==
    \/ AppBuscarBoleto
    \/ AppBuscarPorData
    \/ AppCancelarExtracaoClientes
    \/ AppFimEspera
    \/ AppBaixarSelecionado
    \/ AppOrdenarColuna
    \/ AppConectarCallbackModal
    \/ AppBuscarCallback
    \/ AppAtualizarItem
    \/ AppFinalizarExtracao
    \/ AppBaixarCallback
    \/ ThreadConectar
    \/ ThreadBuscar
    \/ ThreadBaixar
    \/ ThreadExtrairScan
    \/ ThreadExtrairCheck
    \/ ThreadExtrairGrupo

-----------------------------------------------------------------------------
(* BuscaBoletoApp._agrupar_resultados and the emission of the groups by    *)
(* _buscar_callback / _buscar_data_callback (src/interface.py).  A dict is *)
(* the sequence of its entries in insertion order.                         *)

VARIABLES
    resultados,      \* the hit list given to the callback
    grupos,          \* the dict returned by _agrupar_resultados
    grupos_validos,  \* sorted(grupos.items()) with the empty groups dropped
    reagrupados,     \* _agrupar_resultados of the emitted rows, in row order
    agPc             \* "busca" | "agrupado" | "emitido" | "reagrupado"

agVars == <<resultados, grupos, grupos_validos, reagrupados, agPc>>

\* Longest hit list examined.
MaxHits == 3

\* ord(c) for the characters of the file names
Ord(c) ==
    CASE c = "." -> 46
      [] c = "0" -> 48 [] c = "1" -> 49 [] c = "2" -> 50 [] c = "3" -> 51
      [] c = "4" -> 52 [] c = "5" -> 53 [] c = "6" -> 54 [] c = "7" -> 55
      [] c = "8" -> 56 [] c = "9" -> 57
      [] c = "D" -> 68 [] c = "F" -> 70 [] c = "P" -> 80 [] c = "_" -> 95
      [] c = "d" -> 100 [] c = "f" -> 102 [] c = "p" -> 112
      [] c = "t" -> 116 [] c = "x" -> 120
      [] OTHER -> 0

\* a < b for Python str: by code point, a proper prefix first
RECURSIVE StrLess(_, _)
StrLess(a, b) ==
    IF b = <<>> THEN FALSE
    ELSE IF a = <<>> THEN TRUE
    ELSE IF Head(a) = Head(b) THEN StrLess(Tail(a), Tail(b))
    ELSE Ord(Head(a)) < Ord(Head(b))

Nome5909v2 == Filial \o Num5909 \o <<"_", "2">> \o Pdf   \* 010001000005909_2.pdf

NomesDeHits == {Nome5909, Nome5909v2, NomeCurto}
Tipos == {"BOLETO", "NF"}

\* The hits a search can return: (caminho, nome, data_mod, tipo)
HitsPossiveis ==
    {[caminho |-> Append(IF t = "NF" THEN diretorio_remoto_nfs ELSE diretorio_remoto, n),
      nome |-> n, data |-> d, tipo |-> t] :
        n \in NomesDeHits, d \in Datas, t \in Tipos}

ListasDeHits == UNION {[1..n -> HitsPossiveis] : n \in 0..MaxHits}

NumeroChave_mut_all_digits(nome) == DigitsOf(nome)

\* numero_chave: the first 15 digits of the name, or all of them when fewer
NumeroChave(nome) ==
    LET numeros == DigitsOf(nome)
    IN  IF Len(numeros) >= 15 THEN SubSeq(numeros, 1, 15) ELSE numeros

\* chave_unica = (numero_chave, tipo) is the same for both hits
MesmaChaveUnica(a, b) ==
    NumeroChave(a.nome) = NumeroChave(b.nome) /\ a.tipo = b.tipo

Registrar_mut_oldest(mr, h) ==
    IF \E i \in DOMAIN mr : MesmaChaveUnica(mr[i], h)
    THEN [i \in DOMAIN mr |->
            IF MesmaChaveUnica(mr[i], h) /\ h.data < mr[i].data THEN h ELSE mr[i]]
    ELSE Append(mr, h)

\* if chave_unica not in mais_recentes or data_mod > mais_recentes[chave_unica][2]:
\*     mais_recentes[chave_unica] = (caminho, nome, data_mod, tipo)
Registrar(mr, h) ==
    IF \E i \in DOMAIN mr : MesmaChaveUnica(mr[i], h)
    THEN [i \in DOMAIN mr |->
            IF MesmaChaveUnica(mr[i], h) /\ h.data > mr[i].data THEN h ELSE mr[i]]
    ELSE Append(mr, h)

RECURSIVE MaisRecentes(_)
\* the first loop of _agrupar_resultados, over resultados in order
MaisRecentes(res) ==
    IF res = <<>> THEN <<>>
    ELSE Registrar(MaisRecentes(SubSeq(res, 1, Len(res) - 1)), res[Len(res)])

\* grupos[numero_chave].append(...), creating the list on first use
Anexar(gs, h) ==
    IF \E i \in DOMAIN gs : gs[i].chave = NumeroChave(h.nome)
    THEN [i \in DOMAIN gs |->
            IF gs[i].chave = NumeroChave(h.nome)
            THEN [chave |-> gs[i].chave, itens |-> Append(gs[i].itens, h)]
            ELSE gs[i]]
    ELSE Append(gs, [chave |-> NumeroChave(h.nome), itens |-> <<h>>])

RECURSIVE AgruparPorNumero(_)
\* the second loop of _agrupar_resultados, over mais_recentes.items()
AgruparPorNumero(mr) ==
    IF mr = <<>> THEN <<>>
    ELSE Anexar(AgruparPorNumero(SubSeq(mr, 1, Len(mr) - 1)), mr[Len(mr)])

\* key=lambda x: (0 if x[3] == 'NF' else 1, x[1]), compared as tuples
ChaveMenor(a, b) ==
    LET ra == IF a.tipo = "NF" THEN 0 ELSE 1
        rb == IF b.tipo = "NF" THEN 0 ELSE 1
    IN  ra < rb \/ (ra = rb /\ StrLess(a.nome, b.nome))

RECURSIVE InserirOrdenado(_, _)
InserirOrdenado(ordenados, x) ==
    IF ordenados = <<>> THEN <<x>>
    ELSE IF ChaveMenor(x, Head(ordenados))
         THEN <<x>> \o ordenados
         ELSE <<Head(ordenados)>> \o InserirOrdenado(Tail(ordenados), x)

RECURSIVE Inverter(_)
Inverter(s) == IF s = <<>> THEN <<>> ELSE Append(Inverter(Tail(s)), Head(s))

OrdenarGrupo_mut_boleto_first(itens) ==
    IF Len(itens) = 2 /\ itens[1].tipo # itens[2].tipo
    THEN IF itens[1].tipo = "BOLETO" THEN itens ELSE Inverter(itens)
    ELSE itens

OrdenarGrupo_mut_reverse(itens) == Inverter(itens)

RECURSIVE OrdenarGrupo(_)
\* grupos[chave].sort(key=...): stable, ascending
OrdenarGrupo(itens) ==
    IF itens = <<>> THEN <<>>
    ELSE InserirOrdenado(OrdenarGrupo(SubSeq(itens, 1, Len(itens) - 1)), itens[Len(itens)])

\* _agrupar_resultados(resultados): the dict numero_chave -> members
agrupar_resultados(res) ==
    LET gs == AgruparPorNumero(MaisRecentes(res))
    IN  [i \in DOMAIN gs |-> [chave |-> gs[i].chave, itens |-> OrdenarGrupo(gs[i].itens)]]

RECURSIVE InserirPorChave(_, _)
InserirPorChave(ordenados, g) ==
    IF ordenados = <<>> THEN <<g>>
    ELSE IF StrLess(g.chave, Head(ordenados).chave)
         THEN <<g>> \o ordenados
         ELSE <<Head(ordenados)>> \o InserirPorChave(Tail(ordenados), g)

RECURSIVE OrdenarPorChave(_)
\* sorted(grupos.items()): the keys are distinct, so the key alone decides
OrdenarPorChave(gs) ==
    IF gs = <<>> THEN <<>>
    ELSE InserirPorChave(OrdenarPorChave(SubSeq(gs, 1, Len(gs) - 1)), gs[Len(gs)])

\* [(chave, itens) for chave, itens in sorted(grupos.items()) if itens]
GruposValidos(gs) == SelectSeq(OrdenarPorChave(gs), LAMBDA g : g.itens # <<>>)

RECURSIVE Linhas(_)
\* the rows inserted for the groups, in order: the flattened hit list
Linhas(gv) ==
    IF gv = <<>> THEN <<>> ELSE Head(gv).itens \o Linhas(Tail(gv))

\* grupos = self._agrupar_resultados(resultados)
AgAgrupar ==
    /\ agPc = "busca"
    /\ grupos' = agrupar_resultados(resultados)
    /\ agPc' = "agrupado"
    /\ UNCHANGED <<resultados, grupos_validos, reagrupados>>

\* grupos_validos, and the rows inserted group by group
AgEmitir ==
    /\ agPc = "agrupado"
    /\ grupos_validos' = GruposValidos(grupos)
    /\ agPc' = "emitido"
    /\ UNCHANGED <<resultados, grupos, reagrupados>>

\* _agrupar_resultados applied to the emitted rows
AgReagrupar ==
    /\ agPc = "emitido"
    /\ reagrupados' = agrupar_resultados(Linhas(grupos_validos))
    /\ agPc' = "reagrupado"
    /\ UNCHANGED <<resultados, grupos, grupos_validos>>

AgStart ==
    /\ grupos = <<>>
    /\ grupos_validos = <<>>
    /\ reagrupados = <<>>
    /\ agPc = "busca"

AgInit ==
    /\ resultados \in ListasDeHits
    /\ AgStart

\* No search result while the other components are examined.
AgFixed ==
    /\ resultados = <<>>
    /\ AgStart

AgNext ==
    \/ AgAgrupar
    \/ AgEmitir
    \/ AgReagrupar

-----------------------------------------------------------------------------
(* Batch download: BuscaBoletoApp._baixar_multiplos and its worker thread.
   The thread calls SFTPClient.baixar_boleto once per item, through the call
   stack of the SFTPClient, then archives and removes the downloaded files.
   The callbacks scheduled with root.after run with the step that schedules
   them. *)

VARIABLES
    arquivos,           \* the (caminho, nome, tipo) items of the selection
    lotePc,             \* position of baixar_thread
    loteI,              \* index of the running for loop
    arquivos_baixados,  \* local paths returned by the successful downloads
    erros,              \* error entries of the failed downloads
    tipos_baixados,     \* types of the successful downloads
    tentativas,         \* history: remote paths passed to baixar_boleto
    desfechos,          \* history: the success flag each call returned
    zipFile,            \* the archive in the download directory
    identificador,      \* identifier segment of the archive name
    relatorio           \* arguments and dialog of _baixar_multiplos_callback

loteVars == <<arquivos, lotePc, loteI, arquivos_baixados, erros, tipos_baixados,
              tentativas, desfechos, zipFile, identificador, relatorio>>

\* Largest number of marked rows.
MaxSelecao == 2

\* Largest number of marked rows when only the archive name is examined.
MaxMarcados == 4

\* str.lstrip('0')
RECURSIVE Lstrip0(_)
Lstrip0(s) == IF s # <<>> /\ Head(s) = "0" THEN Lstrip0(Tail(s)) ELSE s

\* s[-n:] of a string of at least n characters
Ultimos(s, n) == SubSeq(s, Len(s) - n + 1, Len(s))

\* _extrair_numero_documento(nome_arquivo)
extrair_numero_documento(nome_arquivo) ==
    LET numeros == DigitsOf(nome_arquivo)
        numero_doc == IF Len(numeros) >= 15 THEN SubSeq(numeros, 7, 15)
                      ELSE IF Len(numeros) >= 9 THEN Ultimos(numeros, 9)
                      ELSE numeros
    IN  IF Lstrip0(numero_doc) = <<>> THEN <<"0">> ELSE Lstrip0(numero_doc)

DigitChars == <<"0", "1", "2", "3", "4", "5", "6", "7", "8", "9">>

\* int(x) of a string of digits
RECURSIVE IntDe(_)
IntDe(s) ==
    IF s = <<>> THEN 0
    ELSE 10 * IntDe(SubSeq(s, 1, Len(s) - 1))
         + (CHOOSE d \in 0..9 : DigitChars[d + 1] = s[Len(s)])

\* str(n) of a natural number
RECURSIVE StrDe(_)
StrDe(n) ==
    IF n < 10 THEN <<DigitChars[n + 1]>>
    ELSE StrDe(n \div 10) \o <<DigitChars[(n % 10) + 1]>>

\* A cell read back with tree_resultados.item(item_id)['values']: ttk turns
\* every cell that int() accepts into an int and leaves the others as str.
TkValor(s) ==
    IF s # <<>> /\ \A k \in DOMAIN s : s[k] \in Digit
    THEN [int |-> TRUE, n |-> IntDe(s), s |-> <<>>]
    ELSE [int |-> FALSE, n |-> 0, s |-> s]

\* bool(v) and str(v) of such a cell
Verdadeiro(v) == IF v.int THEN v.n # 0 ELSE v.s # <<>>
StrDoValor(v) == IF v.int THEN StrDe(v.n) ELSE v.s

\* key=lambda x: int(x) if x.isdigit() else 0
ChaveNumerica(x) == IF x # <<>> /\ \A k \in DOMAIN x : x[k] \in Digit THEN IntDe(x) ELSE 0

\* sorted(numeros_docs, key=...); the keys of the numbers of a batch differ
RECURSIVE OrdenarNumeros(_)
OrdenarNumeros(S) ==
    IF S = {} THEN <<>>
    ELSE LET m == CHOOSE x \in S : \A y \in S : ChaveNumerica(x) <= ChaveNumerica(y)
         IN  <<m>> \o OrdenarNumeros(S \ {m})

\* "-".join(lista)
RECURSIVE Juntar(_)
Juntar(lista) ==
    IF lista = <<>> THEN <<>>
    ELSE IF Len(lista) = 1 THEN lista[1]
    ELSE lista[1] \o <<"-">> \o Juntar(Tail(lista))

\* The numbers kept by the loop over the marked rows:
\*   if numero and numero != "-": numeros_docs.add(str(numero))
NumerosDocs(arqs) ==
    {StrDoValor(TkValor(arqs[k].numero)) :
        k \in {j \in DOMAIN arqs :
                 /\ Verdadeiro(TkValor(arqs[j].numero))
                 /\ arqs[j].numero # <<"-">>}}

\* identificador of _baixar_multiplos
Identificador(arqs) ==
    LET numeros_lista == OrdenarNumeros(NumerosDocs(arqs))
    IN  IF numeros_lista = <<>> THEN <<"d", "o", "c">>
        ELSE IF Len(numeros_lista) > 3
             THEN numeros_lista[1] \o <<"-">> \o numeros_lista[Len(numeros_lista)]
             ELSE Juntar(numeros_lista)

\* A row of the result tree: the number shown is the one _buscar_callback
\* computes from the file name.
Item(c, n, t) ==
    [caminho |-> c, nome |-> n, tipo |-> t, numero |-> extrair_numero_documento(n)]

\* Rows of the result tree: the boleto and the nota fiscal of one document
\* carry the same file name in the two remote directories.
Itens ==
    {Item(Append(diretorio_remoto, Nome5909), Nome5909, "BOLETO"),
     Item(Append(diretorio_remoto_nfs, Nome5909), Nome5909, "NF"),
     Item(Append(Append(diretorio_remoto, <<"s", "1">>), Nome5910), Nome5910, "BOLETO")}

\* baixar_selecionado hands over two or more distinct marked rows.
Selecoes ==
    {s \in UNION {[1..n -> Itens] : n \in 2..MaxSelecao} :
        \A i, j \in DOMAIN s : i # j => s[i] # s[j]}

\* Rows of a search by date: any PDF of the directory, whatever its name.
ItensPorData ==
    {Item(Append(diretorio_remoto, Nome5909), Nome5909, "BOLETO"),
     Item(Append(diretorio_remoto, Nome5910), Nome5910, "BOLETO"),
     Item(Append(diretorio_remoto_nfs, NomeCurto), NomeCurto, "NF"),
     Item(Append(diretorio_remoto, <<"9">> \o Pdf), <<"9">> \o Pdf, "BOLETO"),
     Item(Append(diretorio_remoto, <<"1", "0">> \o Pdf), <<"1", "0">> \o Pdf, "BOLETO"),
     Item(Append(diretorio_remoto, <<"n", "f">> \o Pdf), <<"n", "f">> \o Pdf, "BOLETO")}

SelecoesPorData ==
    {s \in UNION {[1..n -> ItensPorData] : n \in 2..MaxMarcados} :
        \A i, j \in DOMAIN s : i # j => s[i] # s[j]}

ZipOutcome == {"ok", "abrir", "escrever"}
RemoveOutcome == {"ok", "erro"}

NoZip == [existe |-> FALSE, prefixo |-> "", identificador |-> <<>>, entradas |-> <<>>]
NoRelatorio ==
    [chamado |-> FALSE, sucesso |-> FALSE, zip |-> FALSE, qtd_ok |-> 0,
     qtd_err |-> 0, erros |-> <<>>, dialogo |-> ""]

\* _baixar_multiplos_callback(sucesso, zip_path, qtd_ok, qtd_err, erros)
baixar_multiplos_callback(sucesso, zip, qtd_ok, qtd_err, errs) ==
    [chamado |-> TRUE, sucesso |-> sucesso, zip |-> zip, qtd_ok |-> qtd_ok,
     qtd_err |-> qtd_err, erros |-> errs,
     dialogo |-> IF sucesso /\ qtd_ok > 0 THEN "Download Concluido" ELSE "Erro"]

Prefixo_mut_nf_first(tipos) ==
    IF "NF" \in tipos THEN "NFBOL" ELSE "BOL"

\* prefixo of the archive name
Prefixo(tipos) ==
    IF "NF" \in tipos /\ "BOLETO" \in tipos THEN "NFBOL"
    ELSE IF "NF" \in tipos THEN "NF"
    ELSE "BOL"

\* zipf.write(arquivo, os.path.basename(arquivo)) for the first k local paths:
\* each entry holds what the download directory has under that path.
EntradasZip(baixados, files, k) ==
    [j \in 1..k |->
        [nome |-> baixados[j],
         conteudo |-> (CHOOSE f \in files : f.nome = baixados[j]).origem]]

LoteStart ==
    /\ lotePc = "parado"
    /\ loteI = 1
    /\ arquivos_baixados = <<>>
    /\ erros = <<>>
    /\ tipos_baixados = {}
    /\ tentativas = <<>>
    /\ desfechos = <<>>
    /\ zipFile = NoZip
    /\ identificador = <<>>
    /\ relatorio = NoRelatorio

\* No batch is running.
LoteInit ==
    /\ arquivos = <<>>
    /\ LoteStart

\* The connection made from the window before a download is asked for.
LoteConectar ==
    /\ lotePc = "parado"
    /\ CallConectar
    /\ UNCHANGED loteVars

\* baixar_selecionado with several rows marked, then _baixar_multiplos up to
\* the start of the thread.
BaixarMultiplos(selecoes) ==
    /\ lotePc = "parado"
    /\ Idle
    /\ lastC = "ok"
    /\ \E s \in selecoes :
         /\ arquivos' = s
         /\ identificador' = Identificador(s)
    /\ lotePc' = "for"
    /\ UNCHANGED <<loteI, arquivos_baixados, erros, tipos_baixados, tentativas,
                   desfechos, zipFile, relatorio>>
    /\ UNCHANGED sftpVars

StartBaixarMultiplos == BaixarMultiplos(Selecoes)

\* The same handler for the rows of a search by date.
StartBaixarMultiplosPorData == BaixarMultiplos(SelecoesPorData)

\* for i, (caminho, nome, tipo) in enumerate(arquivos, 1):
\*     sucesso, resultado = self.ftp_client.baixar_boleto(caminho, nome)
LoteChamar ==
    /\ lotePc = "for"
    /\ loteI <= Len(arquivos)
    /\ stack' = <<Frame("baixar_boleto", "garantir", arquivos[loteI].caminho, "",
                        [NoArg EXCEPT !.nome = arquivos[loteI].nome])>>
    /\ opRec' = NewOp("baixar_boleto")
    /\ tentativas' = Append(tentativas, arquivos[loteI].caminho)
    /\ lotePc' = "chamada"
    /\ UNCHANGED <<ssh, sftp, ret, lastG, lastC, localFiles>>
    /\ UNCHANGED <<arquivos, loteI, arquivos_baixados, erros, tipos_baixados,
                   desfechos, zipFile, identificador, relatorio>>

\* The steps of baixar_boleto inside the thread.
LoteBaixarBoleto ==
    /\ lotePc = "chamada"
    /\ (BaixarBoletoGarantir \/ BaixarBoletoGet)
    /\ UNCHANGED loteVars

\* if sucesso: arquivos_baixados.append(resultado); tipos_baixados.add(tipo)
\* else: erros.append(f"{nome}: {resultado}")
LoteResultado ==
    /\ lotePc = "chamada"
    /\ Idle
    /\ LET sucesso == opRec.result[1]
           resultado == opRec.result[2]
       IN  /\ IF sucesso
              THEN /\ arquivos_baixados' = Append(arquivos_baixados, resultado)
                   /\ tipos_baixados' = tipos_baixados \cup {arquivos[loteI].tipo}
                   /\ UNCHANGED erros
              ELSE /\ erros' = Append(erros, [nome |-> arquivos[loteI].nome,
                                              msg |-> resultado])
                   /\ UNCHANGED <<arquivos_baixados, tipos_baixados>>
           /\ desfechos' = Append(desfechos, sucesso)
    /\ loteI' = loteI + 1
    /\ lotePc' = "for"
    /\ UNCHANGED <<arquivos, tentativas, zipFile, identificador, relatorio>>
    /\ UNCHANGED sftpVars

\* else: _baixar_multiplos_callback(False, "", 0, len(erros), erros)
LoteSemArquivos ==
    /\ lotePc = "for"
    /\ loteI > Len(arquivos)
    /\ arquivos_baixados = <<>>
    /\ relatorio' = baixar_multiplos_callback(FALSE, FALSE, 0, Len(erros), erros)
    /\ lotePc' = "fim"
    /\ UNCHANGED <<arquivos, loteI, arquivos_baixados, erros, tipos_baixados,
                   tentativas, desfechos, zipFile, identificador>>
    /\ UNCHANGED sftpVars

LoteZip_mut_always ==
    /\ lotePc = "for"
    /\ loteI > Len(arquivos)
    /\ zipFile' = [existe |-> TRUE, prefixo |-> Prefixo(tipos_baixados),
                               identificador |-> identificador,
                   entradas |-> EntradasZip(arquivos_baixados, localFiles,
                                            Len(arquivos_baixados))]
    /\ loteI' = 1
    /\ lotePc' = "remove"
    /\ UNCHANGED relatorio
    /\ UNCHANGED <<arquivos, arquivos_baixados, erros, tipos_baixados, tentativas,
                   desfechos, identificador>>
    /\ UNCHANGED sftpVars

\* if arquivos_baixados: with zipfile.ZipFile(zip_path, 'w', ...) as zipf: ...
\* An exception of ZipFile() leaves no archive; an exception of zipf.write
\* leaves the archive with the entries written so far.  Both reach the outer
\* except clause: _baixar_multiplos_callback(False, "", 0, 1, [msg]).
LoteZip ==
    /\ lotePc = "for"
    /\ loteI > Len(arquivos)
    /\ arquivos_baixados # <<>>
    /\ \E o \in ZipOutcome :
         CASE o = "ok" ->
                /\ zipFile' = [existe |-> TRUE, prefixo |-> Prefixo(tipos_baixados),
                               identificador |-> identificador,
                               entradas |-> EntradasZip(arquivos_baixados, localFiles,
                                                        Len(arquivos_baixados))]
                /\ loteI' = 1
                /\ lotePc' = "remove"
                /\ UNCHANGED relatorio
           [] o = "abrir" ->
                /\ relatorio' = baixar_multiplos_callback(FALSE, FALSE, 0, 1,
                                    <<[nome |-> <<>>, msg |-> "zip"]>>)
                /\ lotePc' = "fim"
                /\ UNCHANGED <<zipFile, loteI>>
           [] OTHER ->
                /\ \E k \in 0..(Len(arquivos_baixados) - 1) :
                     zipFile' = [existe |-> TRUE, prefixo |-> Prefixo(tipos_baixados),
                               identificador |-> identificador,
                                 entradas |-> EntradasZip(arquivos_baixados, localFiles, k)]
                /\ relatorio' = baixar_multiplos_callback(FALSE, FALSE, 0, 1,
                                    <<[nome |-> <<>>, msg |-> "zip"]>>)
                /\ lotePc' = "fim"
                /\ UNCHANGED loteI
    /\ UNCHANGED <<arquivos, arquivos_baixados, erros, tipos_baixados, tentativas,
                   desfechos, identificador>>
    /\ UNCHANGED sftpVars

\* for arquivo in arquivos_baixados: try: os.remove(arquivo) except: pass
LoteRemove ==
    /\ lotePc = "remove"
    /\ loteI <= Len(arquivos_baixados)
    /\ \E o \in RemoveOutcome :
         localFiles' = IF o = "ok"
                       THEN {f \in localFiles : f.nome # arquivos_baixados[loteI]}
                       ELSE localFiles
    /\ loteI' = loteI + 1
    /\ UNCHANGED <<ssh, sftp, stack, ret, opRec, lastG, lastC>>
    /\ UNCHANGED <<arquivos, lotePc, arquivos_baixados, erros, tipos_baixados,
                   tentativas, desfechos, zipFile, identificador, relatorio>>

\* _baixar_multiplos_callback(True, zp, len(arquivos_baixados), len(erros), erros)
LoteCallback ==
    /\ lotePc = "remove"
    /\ loteI > Len(arquivos_baixados)
    /\ relatorio' = baixar_multiplos_callback(TRUE, TRUE, Len(arquivos_baixados),
                                              Len(erros), erros)
    /\ lotePc' = "fim"
    /\ UNCHANGED <<arquivos, loteI, arquivos_baixados, erros, tipos_baixados,
                   tentativas, desfechos, zipFile, identificador>>
    /\ UNCHANGED sftpVars

\* The archive name of a batch of rows of a search by date.
IdentNext ==
    \/ LoteConectar
    \/ StartBaixarMultiplosPorData

LoteNext ==
    \/ LoteConectar
    \/ StartBaixarMultiplos
    \/ LoteChamar
    \/ LoteBaixarBoleto
    \/ LoteResultado
    \/ LoteSemArquivos
    \/ LoteZip
    \/ LoteRemove
    \/ LoteCallback

-----------------------------------------------------------------------------
(* The address check of the application: carregar_faixas_ip, run once by
   __init__, and verificar_ip_permitido, run at the start of every search. *)

VARIABLES
    config_faixas,         \* the configuration file as carregar_faixas_ip finds it
    faixas_ip_permitidas,  \* self.faixas_ip_permitidas
    rede,                  \* the addresses the sockets report
    ipPc,                  \* "inicio" | "carregado" | "verificado"
    ip_permitido           \* result of verificar_ip_permitido and of the search gate

ipVars == <<config_faixas, faixas_ip_permitidas, rede, ipPc, ip_permitido>>

FaixaPadrao == <<"1", "9", "2", ".", "1", "6", "8", ".", "1", "1", "2", ".">>
Faixa10 == <<"1", "0", ".", "0", ".">>
Ip192 == FaixaPadrao \o <<"7">>
Ip10 == Faixa10 \o <<"0", ".", "5">>
Ip172 == <<"1", "7", "2", ".", "1", "6", ".", "0", ".", "9">>

\* str.strip() for blanks
RECURSIVE StripEsq(_)
StripEsq(x) == IF x # <<>> /\ Head(x) = " " THEN StripEsq(Tail(x)) ELSE x
RECURSIVE StripDir(_)
StripDir(x) ==
    IF x # <<>> /\ x[Len(x)] = " " THEN StripDir(SubSeq(x, 1, Len(x) - 1)) ELSE x
Strip(x) == StripDir(StripEsq(x))

\* str.split(','): the segments between the commas
RECURSIVE Split(_)
Split(x) ==
    IF \A k \in DOMAIN x : x[k] # ","
    THEN <<x>>
    ELSE LET c == CHOOSE k \in DOMAIN x : x[k] = "," /\ \A j \in 1..(k - 1) : x[j] # ","
         IN  <<SubSeq(x, 1, c - 1)>> \o Split(SubSeq(x, c + 1, Len(x)))

\* ip.startswith(faixa)
StartsWith(x, prefixo) ==
    Len(prefixo) <= Len(x) /\ SubSeq(x, 1, Len(prefixo)) = prefixo

\* The configuration: no file, a file without the option, a file that cannot
\* be read, or the text of the option faixas_ip_permitidas.
ConfigsFaixas ==
    {[estado |-> e, texto |-> <<>>] : e \in {"sem_arquivo", "sem_opcao", "erro"}}
    \cup {[estado |-> "opcao", texto |-> t] :
             t \in {<<>>, <<" ">>, <<",">>, Faixa10, Faixa10 \o <<",", " ">> \o FaixaPadrao}}

\* gethostbyname_ex (its list, or an error) and the address of the UDP socket
\* (<<>> when it cannot be opened).
Redes ==
    {[ok |-> o, ips |-> i, local |-> l] :
        o \in BOOLEAN, i \in {<<Ip172>>, <<Ip10>>, <<Ip172, Ip192>>},
        l \in {<<>>, Ip172, Ip10}}

\* carregar_faixas_ip()
carregar_faixas_ip(cfg) ==
    IF cfg.estado = "opcao" /\ Strip(cfg.texto) # <<>>
    THEN LET partes == Split(Strip(cfg.texto))
             limpas == [k \in DOMAIN partes |-> Strip(partes[k])]
         IN  SelectSeq(limpas, LAMBDA f : f # <<>>)
    ELSE <<FaixaPadrao>>

\* verificar_ip_permitido()
verificar_ip_permitido(faixas, r) ==
    IF faixas = <<>> THEN TRUE
    ELSE IF ~r.ok THEN FALSE
    ELSE IF \E i \in DOMAIN r.ips, f \in DOMAIN faixas : StartsWith(r.ips[i], faixas[f])
         THEN TRUE
    ELSE r.local # <<>> /\ \E f \in DOMAIN faixas : StartsWith(r.local, faixas[f])

NoIp == [verificado |-> FALSE, permitido |-> FALSE, bloqueada |-> FALSE]

\* The application is not being started.
IpFixed ==
    /\ config_faixas = [estado |-> "sem_arquivo", texto |-> <<>>]
    /\ faixas_ip_permitidas = <<>>
    /\ rede = [ok |-> FALSE, ips |-> <<>>, local |-> <<>>]
    /\ ipPc = "parado"
    /\ ip_permitido = NoIp

IpInit ==
    /\ config_faixas \in ConfigsFaixas
    /\ faixas_ip_permitidas = <<>>
    /\ rede \in Redes
    /\ ipPc = "inicio"
    /\ ip_permitido = NoIp

\* __init__: self.faixas_ip_permitidas = self.carregar_faixas_ip()
IpCarregar ==
    /\ ipPc = "inicio"
    /\ faixas_ip_permitidas' = carregar_faixas_ip(config_faixas)
    /\ ipPc' = "carregado"
    /\ UNCHANGED <<config_faixas, rede, ip_permitido>>

\* buscar_boleto / buscar_por_data: if not self.verificar_ip_permitido(): return
IpVerificar ==
    /\ ipPc = "carregado"
    /\ LET p == verificar_ip_permitido(faixas_ip_permitidas, rede)
       IN  ip_permitido' = [verificado |-> TRUE, permitido |-> p, bloqueada |-> ~p]
    /\ ipPc' = "verificado"
    /\ UNCHANGED <<config_faixas, faixas_ip_permitidas, rede>>

IpNext ==
    \/ IpCarregar
    \/ IpVerificar

-----------------------------------------------------------------------------
(* The number shown for a file and the literal search for that number:
   _extrair_numero_documento fills the number column, formatar_numero_boleto
   prepares what the user types, _buscar_em_diretorio compares. *)

VARIABLES
    nome_arquivo,     \* the name of a file on the server
    numero_exibido,   \* the number column of its row
    numero_busca,     \* formatar_numero_boleto of the number typed
    encontrado,       \* whether the literal search keeps the file
    numPc             \* "inicio" | "exibido" | "buscado"

numVars == <<nome_arquivo, numero_exibido, numero_busca, encontrado, numPc>>

formatar_numero_boleto_mut_no_pad(numero) == DigitsOf(numero)

\* formatar_numero_boleto(numero): digits only, "" when none, else zfill(9)
formatar_numero_boleto(numero) ==
    LET numero_limpo == DigitsOf(numero)
    IN  IF numero_limpo = <<>> THEN <<>> ELSE Zfill(numero_limpo, 9)

Filial02 == <<"0", "2", "0", "0", "0", "1">>
NumZero == <<"0", "0", "0", "0", "0", "0", "0", "0", "0">>
Num10 == <<"0", "0", "0", "0", "0", "0", "0", "1", "0">>
NumCheio == <<"1", "2", "3", "4", "5", "6", "7", "8", "9">>
NumCem == <<"1", "0", "0", "0", "0", "0", "0", "0", "0">>

\* File names: an optional prefix, a branch, a nine-digit number (or a short
\* one), and an ending that may carry further digits.
NomesDeArquivo ==
    {pre \o f \o n \o fim :
        pre \in {<<>>, <<"N", "F", "_">>, <<"7", "_">>},
        f \in {Filial, Filial02, <<>>},
        n \in {Num5909, Num5910, NumZero, Num10, NumCheio, NumCem, <<"5", "9", "0", "9">>},
        fim \in {Pdf, PDF, <<"_", "2">> \o Pdf}}

NumFixed ==
    /\ nome_arquivo = <<>>
    /\ numero_exibido = <<>>
    /\ numero_busca = <<>>
    /\ encontrado = FALSE
    /\ numPc = "parado"

NumInit ==
    /\ nome_arquivo \in NomesDeArquivo
    /\ numero_exibido = <<>>
    /\ numero_busca = <<>>
    /\ encontrado = FALSE
    /\ numPc = "inicio"

\* exibir_resultados: numero = self._extrair_numero_documento(nome)
NumExibir ==
    /\ numPc = "inicio"
    /\ numero_exibido' = extrair_numero_documento(nome_arquivo)
    /\ numPc' = "exibido"
    /\ UNCHANGED <<nome_arquivo, numero_busca, encontrado>>

\* buscar_boleto with the literal option, the number typed being the one
\* shown: formatar_numero_boleto, then the test of _buscar_em_diretorio
NumBuscar ==
    /\ numPc = "exibido"
    /\ numero_busca' = formatar_numero_boleto(numero_exibido)
    /\ encontrado' = Matches(nome_arquivo, DigitsOf(numero_busca'), TRUE)
    /\ numPc' = "buscado"
    /\ UNCHANGED <<nome_arquivo, numero_exibido>>

NumNext ==
    \/ NumExibir
    \/ NumBuscar

-----------------------------------------------------------------------------
(* Specifications: each examines one component and holds the others fixed *)

vars == <<sftpVars, nfseVars, appVars, agVars, loteVars, ipVars, numVars>>

Init == SftpInit /\ NfseFixed /\ AppStart /\ AgFixed /\ LoteInit /\ IpFixed /\ NumFixed

Next == SftpNext /\ UNCHANGED <<nfseVars, appVars, agVars, loteVars, ipVars, numVars>>

Spec == Init /\ [][Next]_vars

InitNfse == SftpInit /\ NfseInit /\ AppStart /\ AgFixed /\ LoteInit /\ IpFixed /\ NumFixed

NextNfse == NfseNext /\ UNCHANGED <<sftpVars, appVars, agVars, loteVars, ipVars, numVars>>

SpecNfse == InitNfse /\ [][NextNfse]_vars

InitApp == SftpInit /\ NfseFixed /\ AppStart /\ AgFixed /\ LoteInit /\ IpFixed /\ NumFixed

NextApp == AppNext /\ UNCHANGED <<sftpVars, nfseVars, agVars, loteVars, ipVars, numVars>>

SpecApp == InitApp /\ [][NextApp]_vars

InitAgrupar == SftpInit /\ NfseFixed /\ AppStart /\ AgInit /\ LoteInit /\ IpFixed /\ NumFixed

NextAgrupar == AgNext /\ UNCHANGED <<sftpVars, nfseVars, appVars, loteVars, ipVars, numVars>>

SpecAgrupar == InitAgrupar /\ [][NextAgrupar]_vars

InitLote == SftpInit /\ NfseFixed /\ AppStart /\ AgFixed /\ LoteInit /\ IpFixed /\ NumFixed

NextLote == LoteNext /\ UNCHANGED <<nfseVars, appVars, agVars, ipVars, numVars>>

SpecLote == InitLote /\ [][NextLote]_vars

InitIdent == SftpInit /\ NfseFixed /\ AppStart /\ AgFixed /\ LoteInit /\ IpFixed /\ NumFixed

NextIdent == IdentNext /\ UNCHANGED <<nfseVars, appVars, agVars, ipVars, numVars>>

SpecIdent == InitIdent /\ [][NextIdent]_vars

InitIp == SftpInit /\ NfseFixed /\ AppStart /\ AgFixed /\ LoteInit /\ IpInit /\ NumFixed

NextIp == IpNext /\ UNCHANGED <<sftpVars, nfseVars, appVars, agVars, loteVars, numVars>>

SpecIp == InitIp /\ [][NextIp]_vars

InitNumero == SftpInit /\ NfseFixed /\ AppStart /\ AgFixed /\ LoteInit /\ IpFixed /\ NumInit

NextNumero == NumNext /\ UNCHANGED <<sftpVars, nfseVars, appVars, agVars, loteVars, ipVars>>

SpecNumero == InitNumero /\ [][NextNumero]_vars

-----------------------------------------------------------------------------
(* Properties of the SFTPClient session (specification Spec) *)

PublicOps == {"buscar_boleto_e_nf", "buscar_por_data", "baixar_boleto"}

\* C1: after a conectar() call that returned failure, whichever step failed,
\* both the SSH handle and the SFTP handle are absent.
C1_FailedConectarLeavesNoHandle ==
    (opRec.op = "conectar" /\ opRec.done /\ opRec.result = <<FALSE>>)
        => (ssh = "None" /\ sftp = "None")

\* C2: in every reachable state the SSH handle and the SFTP handle are both
\* present or both absent.
C2_HandlesBothOrNeither == (ssh = "None") <=> (sftp = "None")

\* C3: a garantir_conexao call whose health check failed made exactly one
\* desconectar followed by exactly one conectar, and returned the flag of
\* that conectar.
C3_UnhealthyReconnectsOnce ==
    (lastG.called /\ ~lastG.healthy)
        => /\ lastG.log = <<"desconectar", "conectar">>
           /\ lastG.ret = lastG.conOk
           /\ (opRec.op = "garantir_conexao" => opRec.reconnects = 1)

\* a garantir_conexao call found the session unhealthy and its reconnect failed
C3_Witness ==
    /\ opRec.op = "garantir_conexao"
    /\ lastG.called /\ ~lastG.healthy /\ ~lastG.ret
    /\ ssh # "None"

\* C4: a garantir_conexao call on a healthy session returns true and calls
\* neither desconectar nor conectar; repeated calls on a healthy session make
\* no reconnect attempt.
C4_HealthyMakesNoReconnect ==
    (lastG.called /\ lastG.healthy)
        => /\ lastG.ret
           /\ lastG.log = <<>>
           /\ (opRec.op = "garantir_conexao" => opRec.reconnects = 0)

\* two or more garantir_conexao calls in a row, all on a healthy session
C4_Witness ==
    /\ opRec.garantirs >= 2
    /\ opRec.reconnects = 0
    /\ lastG.called /\ lastG.healthy

\* C5 as claimed: one public operation makes at most one reconnect attempt.
C5_OneReconnectPerOperation ==
    opRec.op \in PublicOps => opRec.reconnects <= 1

\* C5 as amended: every garantir_conexao call of a public operation makes at
\* most one reconnect attempt, so the operation makes no more reconnect
\* attempts than garantir_conexao calls, baixar_boleto at most one; an
\* operation that reached no listing or transfer returns its failure value.
C5_ReconnectsBoundedByChecks ==
    opRec.op \in PublicOps
        => /\ opRec.reconnects <= opRec.garantirs
           /\ Count(lastG.log, "conectar") <= 1
           /\ (opRec.op = "baixar_boleto" => opRec.garantirs <= 1)
           /\ (opRec.done /\ opRec.op = "baixar_boleto" /\ opRec.gets = 0
                  => opRec.result = <<FALSE, "Nao conectado ao servidor SFTP">>)
           /\ (opRec.done /\ opRec.op # "baixar_boleto" /\ opRec.listdirs = 0
                  => opRec.result = <<>>)

\* a search that reconnected twice: on entry and again at a later check
C5_Witness ==
    /\ opRec.op \in {"buscar_boleto_e_nf", "buscar_por_data"}
    /\ opRec.done
    /\ opRec.reconnects >= 2

-----------------------------------------------------------------------------
(* Properties of the application threads (specification SpecApp) *)

\* C6: at any moment at most one thread is inside a call of the SFTPClient.
C6_OneThreadUsesSftp ==
    Cardinality({s \in Slots : UsaSftp(threads[s])}) <= 1

\* C7: an extraction whose cancellation was requested starts no further
\* per-group extraction.
C7_NoGroupAfterCancel ==
    \A s \in Slots : ~threads[s].aposCancelar

\* A step of the cancellation itself: the request (the flag is set and the
\* handler enters its wait loop), the return of cancelar_extracao_clientes, and
\* the end of an extraction that saw the flag.
PassoDeCancelamento ==
    \/ Len(pilha') > Len(pilha)
    \/ /\ Len(pilha') < Len(pilha)
       /\ pilha[Len(pilha)] = "cancelar_extracao_clientes"
    \/ extraindo_clientes /\ ~extraindo_clientes' /\ cancelar_extracao

\* C8: cancelling an extraction leaves every row whose client name had been
\* applied as it was.
C8_CancelKeepsAppliedNames ==
    [][PassoDeCancelamento =>
          \A i \in DOMAIN tree_resultados :
              tree_resultados[i].cliente # Carregando
                  => /\ i \in DOMAIN tree_resultados'
                     /\ tree_resultados'[i] = tree_resultados[i]]_vars

\* cancellation was requested with a name applied and a row still loading
C8_Witness ==
    /\ pilha # <<>>
    /\ pilha[Len(pilha)] = "cancelar_extracao_clientes"
    /\ cancelar_extracao
    /\ \E i \in DOMAIN tree_resultados : tree_resultados[i].cliente = "ACME"
    /\ \E i \in DOMAIN tree_resultados : tree_resultados[i].cliente = Carregando

-----------------------------------------------------------------------------
(* Properties of the NFSe lookup (specification SpecNfse) *)

Lookups == {"buscar_xml_nfse", "buscar_e_salvar_xml_nfse"}

\* C9: the lookup issues the XML request and runs consultar_nfse only after
\* buscar_chave_acesso succeeded; when that step fails the lookup fails with the
\* step's message and the info record has an empty access key.
C9_LookupStopsAtFirstFailure ==
    nfRec.op \in Lookups
        => /\ (\E i \in DOMAIN nfRec.reqs : nfRec.reqs[i].endpoint = "chave")
                 => nfRec.step1.ok
           /\ (\E i \in DOMAIN nfRec.steps : nfRec.steps[i] = "consultar_nfse")
                 => nfRec.step1.ok
           /\ ~nfRec.step1.ok
                 => /\ ~nfRec.ok
                    /\ nfRec.val = nfRec.step1.msg
                    /\ nfRec.info.chave_acesso = <<>>
                    /\ nfRec.steps = <<"buscar_chave_acesso">>

\* the access-key request was sent and the step failed
C9_Witness ==
    /\ nfRec.op = "buscar_xml_nfse"
    /\ ~nfRec.step1.ok
    /\ nfRec.reqs # <<>>

\* C10: for a number with digits the ID DPS is the prefix followed by exactly 17
\* digits, the digits of the number left-padded with zeros; for a number without
\* digits it is empty and buscar_chave_acesso fails without any request.
C10_IdDpsIsPrefixPlus17Digits ==
    nfRec.op = "buscar_chave_acesso"
        => LET id == nfRec.info.id_dps
               digitos == DigitsOf(nfRec.numero)
           IN  IF digitos # <<>>
               THEN /\ Len(id) = Len(prefixo_iddps) + 17
                    /\ SubSeq(id, 1, Len(prefixo_iddps)) = prefixo_iddps
                    /\ \A i \in (Len(prefixo_iddps) + 1)..Len(id) : id[i] \in Digit
                    /\ EndsWith(id, digitos)
               ELSE /\ id = <<>>
                    /\ ~nfRec.ok
                    /\ nfRec.reqs = <<>>

\* C11: over any sequence of calls on one NFSeClient the session is
\* constructed at most once: a stored session is the one constructed, and a
\* call made while a session is stored keeps it and constructs nothing.
C11_SessionBuiltAtMostOnce ==
    /\ [](nfBuilt <= 1 /\ ((nfSession # "None") => (nfBuilt = 1)))
    /\ [][(nfSession # "None") => (nfSession' = nfSession /\ nfBuilt' = nfBuilt)]_vars

\* A composite lookup issued both of its requests, so _get_session ran twice
\* in it, and one session was constructed.
C11_Witness ==
    /\ nfRec.op \in Lookups
    /\ Len(nfRec.reqs) = 2
    /\ nfSession = "bound"
    /\ nfBuilt = 1

SessionSteps == {"buscar_chave_acesso", "consultar_nfse", "baixar_pdf_nfse"}

\* C12: with the certificate path not configured or the certificate file
\* missing, every call of buscar_chave_acesso, consultar_nfse and
\* baixar_pdf_nfse returns failure, issues no HTTP request, and leaves no
\* session stored on the client.
C12_NoCertificateNoRequest ==
    (nfCfg.cert \in {"unset", "missing"} /\ nfRec.op \in SessionSteps) =>
        /\ ~nfRec.ok
        /\ nfRec.reqs = <<>>
        /\ nfSession = "None"
        /\ nfBuilt = 0

\* buscar_chave_acesso passed its own checks (a number with digits, the
\* endpoint configured) and failed in _get_session on the missing file.
C12_Witness ==
    /\ nfCfg.cert = "missing"
    /\ nfCfg.iddps
    /\ nfRec.op = "buscar_chave_acesso"
    /\ nfRec.info.id_dps # <<>>
    /\ nfRec.val = "Erro ao buscar chave de acesso"
    /\ nfRec.reqs = <<>>

\* Responses with status 200 whose payload is confirmed as PDF: by the
\* Content-Type header, or by the first four bytes of the body.
PdfConfirmado == {"200_ctype_pdf", "200_magic_pdf"}

\* C13: baixar_pdf_nfse writes a file only for a response with status 200
\* whose payload is confirmed as PDF; for every other response it returns
\* failure and writes no file.
C13_PdfWrittenOnlyWhenConfirmed ==
    (nfRec.op = "baixar_pdf_nfse") =>
        /\ (nfRec.wrote # {}) => (nfRec.resp \in PdfConfirmado /\ nfRec.reqs # <<>>)
        /\ (nfRec.resp \notin PdfConfirmado) => (~nfRec.ok /\ nfRec.wrote = {})

\* A confirmed PDF was written, after a request was sent.
C13_Witness ==
    /\ nfRec.op = "baixar_pdf_nfse"
    /\ nfRec.ok
    /\ nfRec.resp = "200_magic_pdf"
    /\ nfRec.wrote = {<<"pdf", nfRec.numero>>}
    /\ nfRec.reqs # <<>>

\* C14: every public operation of SFTPClient and NFSeClient returns an
\* explicit outcome for every remote failure: no listing, transfer or HTTP
\* error leaves the operation as an exception.
C14_NoExceptionEscapes ==
    ~opRec.raised

\* The document key as the claims state it: the first 15 digits of the
\* digits-only projection of the file name, or the whole projection.
DocumentKey(nome) ==
    IF Len(DigitsOf(nome)) >= 15 THEN SubSeq(DigitsOf(nome), 1, 15) ELSE DigitsOf(nome)

SameKeyAndType(a, b) == DocumentKey(a.nome) = DocumentKey(b.nome) /\ a.tipo = b.tipo

\* C15: the grouped result holds at most one member per (key, type) pair;
\* the member is one of the hits, and no hit of its pair has a larger
\* modification time.
C15_OneNewestMemberPerKeyAndType ==
    (agPc # "busca") =>
        LET ms == Linhas(grupos)
        IN  /\ \A i, j \in DOMAIN ms : SameKeyAndType(ms[i], ms[j]) => i = j
            /\ \A i \in DOMAIN ms : \E k \in DOMAIN resultados : resultados[k] = ms[i]
            /\ \A k \in DOMAIN resultados :
                 \E i \in DOMAIN ms : /\ SameKeyAndType(ms[i], resultados[k])
                                       /\ ms[i].data >= resultados[k].data

\* Three hits of one pair, the newest in the middle, grouped into one member.
C15_Witness ==
    /\ agPc # "busca"
    /\ Len(resultados) = 3
    /\ \A k \in DOMAIN resultados : SameKeyAndType(resultados[k], resultados[1])
    /\ resultados[1].data < resultados[2].data
    /\ resultados[3].data < resultados[2].data
    /\ Linhas(grupos) = <<resultados[2]>>

\* C16: of the hits that share key, type and modification time with the
\* retained member, the retained one is the last in input order.
C16_TieKeepsLastEncountered ==
    (agPc # "busca") =>
        \A i \in DOMAIN Linhas(grupos) :
            LET m == Linhas(grupos)[i]
                empatados == {k \in DOMAIN resultados :
                                /\ SameKeyAndType(resultados[k], m)
                                /\ resultados[k].data = m.data}
            IN  \A k \in empatados :
                    (\A l \in empatados : l <= k) => (resultados[k] = m)

\* C17, members: in every group an NF member comes before a BOLETO member,
\* and members of one type are in ascending order of file name; groups: the
\* emitted groups are all the groups, in strictly ascending order of key.
C17_MembersAndGroupsOrdered ==
    /\ (agPc # "busca") =>
         \A g \in DOMAIN grupos :
           \A i, j \in DOMAIN grupos[g].itens :
             i < j =>
               LET a == grupos[g].itens[i]
                   b == grupos[g].itens[j]
               IN  /\ ~(a.tipo = "BOLETO" /\ b.tipo = "NF")
                   /\ (a.tipo = b.tipo) => ~StrLess(b.nome, a.nome)
    /\ (agPc \in {"emitido", "reagrupado"}) =>
         /\ {grupos_validos[i] : i \in DOMAIN grupos_validos} =
                {grupos[i] : i \in DOMAIN grupos}
         /\ \A i, j \in DOMAIN grupos_validos :
              i < j => StrLess(grupos_validos[i].chave, grupos_validos[j].chave)

\* Two groups were emitted in the order opposite to the one in which the
\* search returned them, and one holds an NF that came after its BOLETO.
C17_Witness ==
    /\ agPc = "emitido"
    /\ Len(grupos_validos) = 2
    /\ grupos_validos[1] = grupos[2]
    /\ \E g \in DOMAIN grupos : Len(grupos[g].itens) = 2
    /\ resultados[1].tipo = "BOLETO"
    /\ resultados[2].tipo = "NF"
    /\ DocumentKey(resultados[1].nome) = DocumentKey(resultados[2].nome)

\* The dict as a set of (key, members) pairs.
ComoDict(gs) == {<<gs[i].chave, gs[i].itens>> : i \in DOMAIN gs}

\* C18: grouping the flattened groups again gives the same groups, with the
\* same members in the same order, and they are emitted in the same order.
C18_GroupingIsIdempotent ==
    (agPc = "reagrupado") =>
        /\ ComoDict(reagrupados) = ComoDict(grupos)
        /\ GruposValidos(reagrupados) = grupos_validos

\* The regrouped list had lost a hit to the first grouping and holds a
\* group of two members.
C18_Witness ==
    /\ agPc = "reagrupado"
    /\ Len(resultados) = 3
    /\ Len(Linhas(grupos_validos)) = 2
    /\ Len(grupos_validos) = 1
    /\ reagrupados = grupos

\* C19: the key of every group is the document key of each of its members,
\* every hit's key has a group, and no two groups have the same key: two
\* hits are in the same group exactly when their keys are equal.
C19_GroupKeyIsFirst15Digits ==
    (agPc # "busca") =>
        /\ \A g \in DOMAIN grupos :
             \A i \in DOMAIN grupos[g].itens :
                grupos[g].chave = DocumentKey(grupos[g].itens[i].nome)
        /\ \A g, h \in DOMAIN grupos : grupos[g].chave = grupos[h].chave => g = h
        /\ \A k \in DOMAIN resultados :
             \E g \in DOMAIN grupos : grupos[g].chave = DocumentKey(resultados[k].nome)

\* One group holds a name of 15 digits and a name of 16 digits, another a
\* name of fewer than 15 digits.
C19_Witness ==
    /\ agPc # "busca"
    /\ Len(grupos) = 2
    /\ \E g \in DOMAIN grupos :
         /\ Len(grupos[g].itens) = 2
         /\ grupos[g].itens[1].nome # grupos[g].itens[2].nome
         /\ Len(grupos[g].chave) = 15
    /\ \E g \in DOMAIN grupos : Len(grupos[g].chave) < 15

\* The match as the claim states it: in literal mode and with at least 15
\* digits in the name, digits[6:15] equals the requested digits; otherwise
\* the requested digits occur in the digits of the name.
ClaimedMatch(nome, requested, literal) ==
    IF literal /\ Len(DigitsOf(nome)) >= 15
    THEN SubSeq(DigitsOf(nome), 7, 15) = requested
    ELSE IsSubstring(requested, DigitsOf(nome))

\* C20: the step of _buscar_em_diretorio that filters the listed files
\* returns exactly the listed files that match as the claim states, for the
\* mode and the requested digits of the call.
C20_LiteralAndSubstringMatch ==
    [][At("_buscar_em_diretorio", "filter") =>
         /\ \A i \in DOMAIN ret :
              (\E j \in DOMAIN ret' : ret'[j].caminho = ret[i].caminho)
                  <=> ClaimedMatch(ret[i].nome, Top.arg.numero, Top.arg.literal)
         /\ \A j \in DOMAIN ret' :
              \E i \in DOMAIN ret : /\ ret[i].caminho = ret'[j].caminho
                                    /\ ret[i].nome = ret'[j].nome]_vars

\* A literal search for 000005909 has just returned from the directory of
\* boletos, after a listing, with 010001000005909.pdf as its only hit.
C20_Witness ==
    /\ At("buscar_boleto_e_nf", "boletos")
    /\ Top.arg.literal
    /\ Top.arg.numero = Num5909
    /\ Len(ret) = 1
    /\ ret[1].nome = Nome5909
    /\ opRec.listdirs >= 1

\* C21: for every listed file name and every requested number that reach
\* the filter of _buscar_em_diretorio, a match in literal mode implies a
\* match in non-literal mode.
C21_LiteralImpliesNonLiteral ==
    At("_buscar_em_diretorio", "filter") =>
        \A i \in DOMAIN ret :
            Matches(ret[i].nome, Top.arg.numero, TRUE)
                => Matches(ret[i].nome, Top.arg.numero, FALSE)

\* The inclusion is strict: a non-literal search has just returned a file
\* that the literal test rejects for the same number.
C21_Witness ==
    /\ At("buscar_boleto_e_nf", "boletos")
    /\ ~Top.arg.literal
    /\ \E j \in DOMAIN ret :
         /\ Matches(ret[j].nome, DigitsOf(Top.arg.numero), FALSE)
         /\ ~Matches(ret[j].nome, DigitsOf(Top.arg.numero), TRUE)

\* C22: a call of buscar_boleto_e_nf whose requested identifier holds no
\* digit ends at its first step with an empty result, having listed no
\* remote directory.
C22_NoDigitNoListing ==
    [][(At("buscar_boleto_e_nf", "garantir") /\ DigitsOf(Top.arg.numero) = <<>>) =>
         /\ stack' = <<>>
         /\ opRec'.done
         /\ opRec'.result = <<>>
         /\ opRec'.listdirs = 0
         /\ ~opRec'.raised]_vars

\* buscar_boleto_e_nf returned after one garantir_conexao that succeeded:
\* the connection was there and the identifier had no digit.
C22_Witness ==
    /\ opRec.op = "buscar_boleto_e_nf"
    /\ opRec.done
    /\ opRec.garantirs = 1
    /\ lastG.ret
    /\ opRec.result = <<>>
    /\ opRec.listdirs = 0

\* The value returned by the call that a step ends: to the frame below, or
\* as the result of the public operation.
Returned == IF stack' = <<>> THEN opRec'.result ELSE ret'

\* C23: when the garantir_conexao of a listar_arquivos_com_data call cannot
\* establish the connection, the call returns the empty list at once: it
\* lists no directory and raises nothing.
C23_NoConnectionEmptyWalk ==
    [][(At("listar_arquivos_com_data", "garantir") /\ ~lastG'.ret) =>
         /\ stack' = Pop
         /\ Returned = <<>>
         /\ opRec'.listdirs = opRec.listdirs
         /\ ~opRec'.raised]_vars

\* A walk ended after its only garantir_conexao failed.
C23_Witness ==
    /\ opRec.op = "listar_arquivos_com_data"
    /\ opRec.done
    /\ opRec.garantirs = 1
    /\ lastG.called
    /\ ~lastG.ret
    /\ opRec.result = <<>>
    /\ opRec.listdirs = 0

RECURSIVE ArvoreSem(_, _)
RECURSIVE EntradasSem(_, _, _)
\* The files with an allowed extension under directory d, in walk order,
\* without the subtrees of the directories in omitidos.
ArvoreSem(d, omitidos) ==
    IF d \in omitidos THEN <<>> ELSE EntradasSem(d, Listing(d), omitidos)
EntradasSem(d, ents, omitidos) ==
    IF ents = <<>> THEN <<>>
    ELSE LET item == Head(ents)
             aqui == IF item.isDir THEN ArvoreSem(Append(d, item.filename), omitidos)
                     ELSE IF \E ext \in extensoes_permitidas : EndsWith(item.filename, ext)
                     THEN <<[caminho |-> Append(d, item.filename), nome |-> item.filename,
                             data |-> item.st_mtime]>>
                     ELSE <<>>
         IN  aqui \o EntradasSem(d, Tail(ents), omitidos)

\* C24: a walk in which the only failures were permission errors on the
\* listing of subdirectories returns, without raising, every file of the
\* tree outside those subdirectories: the walk is not aborted and the files
\* of the parent and of the sibling subdirectories are returned.
C24_PermissionErrorOmitsOnlySubtree ==
    (/\ opRec.op = "listar_arquivos_com_data"
     /\ opRec.done
     /\ opRec.falhas # {}
     /\ \A f \in opRec.falhas : f.o = "perm" /\ f.dir # opRec.dir) =>
        /\ opRec.result = ArvoreSem(opRec.dir, {f.dir : f \in opRec.falhas})
        /\ ~opRec.raised

\* The listing of s1 alone failed, with a permission error; the file of
\* the parent and the file of the sibling s2 were returned.
C24_Witness ==
    /\ opRec.op = "listar_arquivos_com_data"
    /\ opRec.done
    /\ opRec.dir = diretorio_remoto
    /\ opRec.falhas = {[dir |-> Append(diretorio_remoto, <<"s", "1">>), o |-> "perm"]}
    /\ Len(opRec.result) = 2
    /\ opRec.result[1].nome = Nome5909
    /\ opRec.result[2].nome = NomeCurto

\* C25: the walk call whose listing failed with a transport error calls
\* garantir_conexao before it returns and returns what it had gathered; a
\* walk whose only failures were transport errors returns every file
\* outside the directories whose listing failed.
C25_TransportErrorReconnectsAndKeepsEntries ==
    /\ []((/\ opRec.op = "listar_arquivos_com_data"
           /\ opRec.done
           /\ opRec.falhas # {}
           /\ \A f \in opRec.falhas : f.o = "sock") =>
              /\ opRec.result = ArvoreSem(opRec.dir, {f.dir : f \in opRec.falhas})
              /\ ~opRec.raised)
    /\ [][At("listar_arquivos_com_data", "except") =>
            /\ lastG'.called
            /\ opRec'.garantirs = Min(opRec.garantirs + 1, CountCap)
            /\ stack' = Pop
            /\ Returned = Top.acc
            /\ ~opRec'.raised]_vars

\* The listing of s2 alone failed, with a transport error, after the file
\* of the parent and the file of s1 were gathered; both were returned.
C25_Witness ==
    /\ opRec.op = "listar_arquivos_com_data"
    /\ opRec.done
    /\ opRec.dir = diretorio_remoto
    /\ opRec.falhas = {[dir |-> Append(diretorio_remoto, <<"s", "2">>), o |-> "sock"]}
    /\ Len(opRec.result) = 2
    /\ opRec.result[1].nome = Nome5909
    /\ opRec.result[2].nome = Nome5910
    /\ lastG.called

\* C26: baixar_boleto transfers only after a garantir_conexao call of the same
\* operation returned true; when that call returns false the operation returns
\* (False, message) with no transfer attempted and no local file written; a
\* transfer with no local name given writes the file under the basename of
\* the remote path.
C26_DownloadRequiresConnection ==
    /\ [](At("baixar_boleto", "get") =>
            /\ opRec.garantirs >= 1
            /\ opRec.gets = 0
            /\ lastG.called
            /\ lastG.ret)
    /\ [][At("baixar_boleto", "garantir") /\ ~lastG'.ret =>
            /\ stack' = <<>>
            /\ opRec'.done
            /\ opRec'.result[1] = FALSE
            /\ Len(opRec'.result[2]) > 0
            /\ opRec'.gets = 0
            /\ localFiles' = localFiles]_vars
    /\ [][At("baixar_boleto", "get") /\ Top.arg.nome = <<>> /\ opRec'.result[1] = TRUE =>
            /\ [nome |-> Basename(Top.dir), origem |-> Top.dir] \in localFiles'
            /\ opRec'.result = <<TRUE, Basename(Top.dir)>>
            /\ \A f \in localFiles' \ localFiles : f.nome = Basename(Top.dir)]_vars

\* A download with no local name given has written the notas-fiscais file
\* under its basename.
C26_Witness ==
    /\ opRec.op = "baixar_boleto"
    /\ opRec.done
    /\ opRec.result = <<TRUE, Nome5909>>
    /\ opRec.gets = 1
    /\ [nome |-> Nome5909, origem |-> Append(diretorio_remoto_nfs, Nome5909)] \in localFiles

-----------------------------------------------------------------------------
(* Properties of the batch download (specification SpecLote) *)

\* Number of calls of the batch that returned the success flag b.
NumDesfechos(b) == Cardinality({k \in DOMAIN desfechos : desfechos[k] = b})

\* C27: every selected item is attempted exactly once, in selection order; a
\* failed item has an entry in the error list and the later items are still
\* attempted; the counts handed to the callback equal the number of calls
\* that succeeded and the number that failed.
C27_BatchAttemptsAllAndCountsMatch ==
    /\ Len(tentativas) <= Len(arquivos)
    /\ \A k \in DOMAIN tentativas : tentativas[k] = arquivos[k].caminho
    /\ lotePc \in {"remove", "fim"} => Len(tentativas) = Len(arquivos)
    /\ Len(erros) = NumDesfechos(FALSE)
    /\ \A k \in DOMAIN desfechos :
          ~desfechos[k] => \E e \in DOMAIN erros : erros[e].nome = arquivos[k].nome
    /\ relatorio.chamado =>
          /\ relatorio.qtd_ok = NumDesfechos(TRUE)
          /\ relatorio.qtd_err = NumDesfechos(FALSE)

\* C28: a batch in which no download succeeded ends with no archive and with
\* the failure report.
C28_NoSuccessNoArchive ==
    (lotePc = "fim" /\ NumDesfechos(TRUE) = 0) =>
        /\ ~zipFile.existe
        /\ relatorio.chamado
        /\ ~relatorio.sucesso
        /\ ~relatorio.zip
        /\ relatorio.dialogo = "Erro"

\* Both downloads of a batch failed; the batch reported the two errors and
\* created no archive.
C28_Witness ==
    /\ lotePc = "fim"
    /\ desfechos = <<FALSE, FALSE>>
    /\ Len(tentativas) = 2
    /\ relatorio.chamado
    /\ relatorio.qtd_err = 2
    /\ ~zipFile.existe

\* C29: the archive of a batch reported as successful holds one entry per
\* successful item, with that item's name and that item's own content.
C29_ArchiveHoldsEveryDownloadedFile ==
    (lotePc = "fim" /\ relatorio.sucesso) =>
        /\ zipFile.existe
        /\ Len(zipFile.entradas) = NumDesfechos(TRUE)
        /\ \A k \in DOMAIN desfechos :
              desfechos[k] =>
                 \E e \in DOMAIN zipFile.entradas :
                    /\ zipFile.entradas[e].nome = arquivos[k].nome
                    /\ zipFile.entradas[e].conteudo = arquivos[k].caminho

\* C30: after a batch reported as successful none of the individually
\* downloaded files is left in the download directory.
C30_NoIndividualFileRemains ==
    (lotePc = "fim" /\ relatorio.sucesso) =>
        /\ zipFile.existe
        /\ localFiles = {}

\* Types of the items of the batch whose download succeeded.
TiposComSucesso == {arquivos[k].tipo : k \in {j \in DOMAIN desfechos : desfechos[j]}}

\* C31: the prefix of the archive name is NFBOL when the successfully
\* downloaded items include an NF and a BOLETO, NF when they are all NFs and
\* BOL when they are all BOLETOs.
C31_ArchivePrefixFollowsTypes ==
    zipFile.existe =>
        /\ TiposComSucesso = {"NF", "BOLETO"} => zipFile.prefixo = "NFBOL"
        /\ TiposComSucesso = {"NF"} => zipFile.prefixo = "NF"
        /\ TiposComSucesso = {"BOLETO"} => zipFile.prefixo = "BOL"

\* The boleto of a batch failed and its nota fiscal was downloaded: the
\* archive is named NF.
C31_Witness ==
    /\ lotePc = "fim"
    /\ relatorio.sucesso
    /\ Len(arquivos) = 2
    /\ arquivos[1].tipo = "BOLETO"
    /\ arquivos[2].tipo = "NF"
    /\ desfechos = <<FALSE, TRUE>>
    /\ zipFile.prefixo = "NF"

-----------------------------------------------------------------------------
(* Properties of the archive name (specifications SpecIdent and SpecLote) *)

\* The distinct document numbers shown in the rows of the batch.
NumerosDoLote == {IntDe(arquivos[k].numero) : k \in DOMAIN arquivos}

\* The numbers of S as strings, in ascending order.
RECURSIVE EmOrdemCrescente(_)
EmOrdemCrescente(S) ==
    IF S = {} THEN <<>>
    ELSE LET m == CHOOSE x \in S : \A y \in S : x <= y
         IN  <<StrDe(m)>> \o EmOrdemCrescente(S \ {m})

\* C32: the identifier of the archive name is made of the distinct document
\* numbers of the batch in ascending numeric order, joined with '-' when
\* they are at most three and reduced to smallest-largest when more.
C32_IdentifierFromSortedNumbers ==
    lotePc = "for" =>
        LET ordenados == EmOrdemCrescente(NumerosDoLote)
        IN  identificador =
               IF Len(ordenados) <= 3 THEN Juntar(ordenados)
               ELSE ordenados[1] \o <<"-">> \o ordenados[Len(ordenados)]

\* C38: the identifier of the name of a written archive shows no document
\* number of an item whose download failed, unless another item of the same
\* number was downloaded.
C38_ArchiveNameOnlyDownloadedDocuments ==
    (lotePc = "fim" /\ relatorio.sucesso) =>
        \A k \in DOMAIN desfechos :
           (/\ ~desfechos[k]
            /\ \A j \in DOMAIN desfechos :
                  desfechos[j] => arquivos[j].numero # arquivos[k].numero) =>
               ~IsSubstring(arquivos[k].numero, zipFile.identificador)

-----------------------------------------------------------------------------
(* Further properties of the SFTPClient session (specification Spec) *)

C34_ConnectedOnlyAfterSuccessfulConectar ==
    (/\ opRec.op = "garantir_conexao"
     /\ opRec.done
     /\ opRec.result = <<TRUE>>) => lastC = "ok"

-----------------------------------------------------------------------------
(* Further properties of the application (specification SpecApp) *)

\* C35: while an extraction thread has not finished, extraindo_clientes is
\* true.
C35_FlagCoversRunningExtraction ==
    (\E s \in Slots : threads[s].kind = "extrair") => extraindo_clientes

\* C36: when the last finalizar_extracao of uncancelled extractions runs, no
\* displayed row still shows 'Carregando...'.
C36_CompletedExtractionFillsEveryRow ==
    [][(/\ fila_after # <<>>
        /\ Head(fila_after).cb = "finalizar_extracao"
        /\ fila_after' = Tail(fila_after)
        /\ ~cancelar_extracao
        /\ \A s \in Slots : threads[s].kind # "extrair"
        /\ \A k \in DOMAIN fila_after' : fila_after'[k].cb # "finalizar_extracao") =>
            \A i \in DOMAIN tree_resultados' :
                tree_resultados'[i].cliente # Carregando]_vars

\* The search threads a step starts.
BuscasIniciadas ==
    {s \in Slots : /\ threads[s] = NoThread
                   /\ threads'[s].kind \in {"buscar_boleto", "buscar_por_data"}}

\* The step runs _conectar_callback_modal.
PassoCallbackConexao ==
    /\ fila_after # <<>>
    /\ Head(fila_after).cb = "_conectar_callback_modal"
    /\ fila_after' = Tail(fila_after)

-----------------------------------------------------------------------------
(* Properties of the address check (specification SpecIp) *)

\* C39: when the setting faixas_ip_permitidas is missing or empty,
\* verificar_ip_permitido returns true and the search is not blocked.
C39_NoRangesPermitsAnyIp ==
    (/\ ipPc = "verificado"
     /\ \/ config_faixas.estado \in {"sem_arquivo", "sem_opcao"}
        \/ config_faixas.estado = "opcao" /\ Strip(config_faixas.texto) = <<>>) =>
        /\ ip_permitido.permitido
        /\ ~ip_permitido.bloqueada

-----------------------------------------------------------------------------
(* Properties of the number shown for a file (specification SpecNumero) *)

====
